---- MODULE Spec2Model ----
(***************************************************************************)
(* Spotify Sorter: the desktop scan / review / apply loop (App.tsx,        *)
(* store.ts, ReviewModal), the history and ignored-track dialogs, and the  *)
(* automation server's dashboard (Dashboard.tsx).  The Tauri / HTTP        *)
(* backend is not part of the sources; the operators that stand for it are *)
(* modelled from the written specification and are marked as such.         *)
(***************************************************************************)
EXTENDS Integers, Sequences, FiniteSets, TLC

\* ---------------------------------------------------------------- bounds
NumPlaylists == 2
MaxRuns == 2
MaxApplyCalls == 1
MaxRestoreCalls == 1
NumConfigs == 2
MaxClicks == 2
MaxDropped == 1
MaxHistory == 2
MaxPending == 2
MaxReloads == 1
MaxSourceLen == 2
MaxTargetLen == 2
MaxSchedules == 1
MaxRules == 4
MaxEditorRules == 2
\* Dashboard.tsx 66
maxAttempts == 120

PlaylistIds == 1..NumPlaylists
ConfigIds == 1..NumConfigs

\* ------------------------------------------------------- data (backend)
\* Every playlist p starts with three tracks: a song, a track that has an
\* alternate version in the catalog, and a duplicate of the song.
Song(p) == 10 * p + 3
Orig(p) == 10 * p + 1
Alt(p) == 10 * p + 2
Dupe(p) == 10 * p + 4
Extra(p) == 10 * p + 5

\* NormalizedKey: Orig/Alt are one song, Song/Dupe are one song.
NormalizedKey(uri) == IF uri % 10 = 2 THEN uri - 1
                      ELSE IF uri % 10 = 4 THEN uri - 1 ELSE uri

Range(s) == {s[i] : i \in 1..Len(s)}

\* ReviewChange (App.tsx 28-40): id, type, the removed track, the new track
\* and the texts the review dialog's search box matches.  A text is a
\* sequence of letters; a field the change does not have is the empty text.
ReplaceChange(p) ==
    [id |-> 10 * p + 1, type |-> "replace", track_uri |-> Orig(p),
     new_uri |-> Alt(p), newTitle |-> <<"A", "b">>, newArtist |-> <<"c">>,
     remTitle |-> <<>>, remArtist |-> <<>>]
DuplicateChange(p) ==
    [id |-> 10 * p + 2, type |-> "duplicate", track_uri |-> Dupe(p),
     new_uri |-> 0, newTitle |-> <<>>, newArtist |-> <<>>,
     remTitle |-> <<"b", "D">>, remArtist |-> <<"c">>]

\* IgnoreEntry: (NormalizedKey, rejected alternative).
IgnoreEntryOf(c) ==
    [key |-> NormalizedKey(c.track_uri),
     cand |-> IF c.type = "replace" THEN c.new_uri ELSE c.track_uri]

NoReview == [playlist_id |-> 0, changes |-> <<>>]
NoApply == <<>>

OtherModals == {"ignored"}
Queries == {<<>>, <<"a">>, <<"D">>, <<"c">>, <<"x">>}
NoItem == <<>>

VARIABLES
    \* store.ts
    selectedPlaylistIds, isProcessing, shouldCancel, sortEnabled, sortRules,
    \* App.tsx component state
    reviewQueue, activeReview, activeModal,
    \* performScanLoop: position, captured arguments
    loopPc, loopIds, currentIndex, loopState,
    \* ReviewModal component state
    checkedIds, searchQuery,
    \* handleApplyReview invocations awaiting apply_changes
    applyCalls,
    \* backend: playlists, ignore store, snapshots
    remote, ignored, snapshots,
    \* bookkeeping: runs started, playlists scanned in this run, playlists
    \* named by console.error in this run, rejections still in force
    runCount, scanLog, errorLog, rejectedLive,
    \* HistoryModal component state, restore_snapshot calls in flight
    history, confirmRestoreId, isRestoring, restoreCalls,
    \* bookkeeping: per playlist, the uri sequence the last apply started
    \* from, kept while nothing else has written the playlist since
    preApply,
    \* Dashboard component state: runningId, and per accepted click the
    \* POST, the poll interval and its callbacks
    runningId, runs,
    \* DynamicPlaylistSection component state and handleUpdate's position
    updatingId, updatePc,
    \* server: RunHistory store
    runHistory,
    \* bookkeeping: clicks that were turned away, history ids the dashboard
    \* raised a failure alert for
    dropped, alerted,
    \* the program a behaviour of the run model follows: the server with its
    \* dashboard, or the desktop application
    app,
    \* PlaylistSelector component state, the position of its fetch, and
    \* bookkeeping: the seconds of the last 429, page reloads so far
    rateLimited, waitTime, loading, selectorPc, cooldown, reloads,
    \* Dynamic Merge Engine: the config of the run, its resolved sources, the
    \* list in the pipeline, the target's tracks as read, the ComputedResult
    \* (final list, stats.duplicatesRemoved) and the engine's position
    config, sourceLists, workList, targetList, finalList, duplicatesRemoved,
    enginePc,
    \* DesktopSchedulesModal / Schedules component state
    schedules, showEditModal, editingId, formData, simpleFreq, simpleInterval,
    simpleTime, simpleDow, simpleDom,
    \* handleSave awaiting its response; bookkeeping: no frequency control
    \* was changed since the editor opened; loadData has returned
    saving, untouched, schedulesPc,
    \* DesktopSchedulesModal: the error banner is shown
    error,
    \* DynamicPlaylistModal component state, ConfigEditor's config state,
    \* DynamicPlaylistModal's error line, and the config handed to
    \* save_dynamic_config or to POST /api/configs while the call is pending
    dynamicForm, editorConfig, formError, request,
    \* ComparePlaylistsModal component state; handleRemoveFromPlaylist
    \* invocations awaiting remove_track_from_playlist
    result, removeStatus, removeCalls

scanVars == <<selectedPlaylistIds, isProcessing, shouldCancel, sortEnabled,
              sortRules, reviewQueue, activeReview, activeModal, loopPc,
              loopIds, currentIndex, loopState, checkedIds, searchQuery,
              applyCalls, remote, ignored, snapshots, runCount, scanLog,
              errorLog, rejectedLive>>

selectorVars == <<rateLimited, waitTime, loading, selectorPc, cooldown, reloads>>

\* State of the components the scan, review and run models leave alone.
engineVars == <<config, sourceLists, workList, targetList, finalList,
                duplicatesRemoved, enginePc>>

cronVars == <<schedules, showEditModal, editingId, formData, simpleFreq,
              simpleInterval, simpleTime, simpleDow, simpleDom, saving, untouched,
              schedulesPc, error>>

formVars == <<dynamicForm, editorConfig, formError, request>>

compareVars == <<result, removeStatus, removeCalls>>

restVars == <<selectorVars, engineVars, cronVars, formVars, compareVars>>

runVars == <<runningId, runs, updatingId, updatePc, runHistory, dropped, alerted, app,
             restVars>>

vars == <<scanVars, history, confirmRestoreId, isRestoring, restoreCalls,
          preApply, runVars>>

\* store.ts 80-85: the four default rules.
DefaultSortRules ==
    << [criteria |-> "Release Date", descending |-> TRUE],
       [criteria |-> "Artist", descending |-> FALSE],
       [criteria |-> "Album", descending |-> FALSE],
       [criteria |-> "Track Name", descending |-> FALSE] >>

\* SortSection.tsx 6, the criteria the model's rules use.
SORT_CRITERIA == {"Release Date", "Artist", "Album", "Track Name"}

InitialTracks(p) == <<Orig(p), Song(p), Dupe(p)>>

\* No PlaylistSelector is mounted.
SelectorUnmounted ==
    /\ rateLimited = FALSE
    /\ waitTime = 0
    /\ loading = TRUE
    /\ selectorPc = "unmounted"
    /\ cooldown = 0
    /\ reloads = 0

\* No config is being run by the merge engine.
NoConfig == [update_mode |-> "replace", sample_per_source |-> 0,
             apply_sort |-> FALSE, sort_rules |-> <<>>, apply_dupes |-> FALSE,
             dupe_preference |-> "Keep Oldest (Playlist Order)"]

EngineIdle ==
    /\ config = NoConfig
    /\ sourceLists = <<>>
    /\ workList = <<>>
    /\ targetList = <<>>
    /\ finalList = <<>>
    /\ duplicatesRemoved = 0
    /\ enginePc = "idle"

\* DesktopSchedulesModal.tsx 76-97: useState initialisers.
SchedulesUnmounted ==
    /\ schedules = <<>>
    /\ showEditModal = FALSE
    /\ editingId = 0
    /\ formData = [cron_expression |-> <<"0", " ", "0", " ", "*", " ", "*", " ", "*">>]
    /\ simpleFreq = "daily"
    /\ simpleInterval = 6
    /\ simpleTime = <<"0", "0", ":", "0", "0">>
    /\ simpleDow = <<"1">>
    /\ simpleDom = <<"1">>
    /\ saving = [id |-> 0 - 1, cron_expression |-> <<>>, untouched |-> FALSE]
    /\ untouched = TRUE
    /\ schedulesPc = "unmounted"
    /\ error = FALSE

\* No config form is open and no save is pending.
NoForm == <<>>
NoRequest == <<>>

FormsClosed ==
    /\ dynamicForm = NoForm
    /\ editorConfig = NoForm
    /\ formError = FALSE
    /\ request = NoRequest

\* ComparePlaylistsModal.tsx 27-31: useState initialisers.
NoResult == <<>>

CompareUnmounted ==
    /\ result = NoResult
    /\ removeStatus = <<>>
    /\ removeCalls = {}

RestInit ==
    /\ SelectorUnmounted
    /\ EngineIdle
    /\ SchedulesUnmounted
    /\ FormsClosed
    /\ CompareUnmounted

\* Nothing runs on the dashboard or in the dynamic playlist section.
RunVarsInit ==
    /\ runningId = 0
    /\ runs = <<>>
    /\ updatingId = 0
    /\ updatePc = "idle"
    /\ runHistory = <<>>
    /\ dropped = <<>>
    /\ alerted = {}
    /\ app \in {"server", "desktop"}
    /\ RestInit

ScanInitWith(storedRules) ==
    /\ RunVarsInit
    /\ app = "desktop"
    /\ selectedPlaylistIds = <<>>
    /\ isProcessing = FALSE
    /\ shouldCancel = FALSE
    /\ sortEnabled \in BOOLEAN
    /\ sortRules \in storedRules
    /\ reviewQueue = <<>>
    /\ activeReview = NoReview
    /\ activeModal = "none"
    /\ loopPc = "idle"
    /\ loopIds = <<>>
    /\ currentIndex = 0
    /\ loopState = [sortEnabled |-> sortEnabled, sortRules |-> sortRules]
    /\ checkedIds = {}
    /\ searchQuery = <<>>
    /\ applyCalls = {}
    /\ remote = [p \in PlaylistIds |-> InitialTracks(p)]
    /\ ignored = {}
    /\ snapshots = {}
    /\ runCount = 0
    /\ scanLog = <<>>
    /\ errorLog = {}
    /\ rejectedLive = {}
    /\ history = {}
    /\ confirmRestoreId = NoItem
    /\ isRestoring = FALSE
    /\ restoreCalls = {}
    /\ preApply = [p \in PlaylistIds |-> NoApply]

ScanInit == ScanInitWith({DefaultSortRules})

storeVars == <<selectedPlaylistIds, isProcessing, shouldCancel, sortEnabled, sortRules>>
loopVars == <<loopPc, loopIds, currentIndex, loopState>>
modalVars == <<checkedIds, searchQuery>>
historyVars == <<history, confirmRestoreId, isRestoring, restoreCalls>>
otherVars == <<historyVars, preApply, runVars>>
backendVars == <<remote, ignored, snapshots>>

\* ------------------------------------------- backend (Tauri commands)
\* scan_playlist: the changes the dedup and version stages propose for p.
\* A change is proposed while its track is still in the playlist and no
\* IgnoreEntry pins it.
IsApplicable(c, uris) ==
    /\ c.track_uri \in Range(uris)
    /\ c.type = "duplicate" => NormalizedKey(c.track_uri) \in Range(uris)

scan_playlist(p) ==
    SelectSeq(<<ReplaceChange(p), DuplicateChange(p)>>,
              LAMBDA c : /\ IsApplicable(c, remote[p])
                         /\ IgnoreEntryOf(c) \notin ignored)

ApplyOne(uris, c) ==
    IF c.type = "replace"
    THEN [i \in DOMAIN uris |->
             IF uris[i] = c.track_uri THEN c.new_uri ELSE uris[i]]
    ELSE SelectSeq(uris, LAMBDA u : u # c.track_uri)

RECURSIVE ApplyAll(_, _)
ApplyAll(uris, changes) ==
    IF changes = <<>> THEN uris
    ELSE ApplyAll(ApplyOne(uris, Head(changes)), Tail(changes))

SortUris(uris) == SortSeq(uris, LAMBDA a, b : a < b)

FinalUris(uris, approved, sortOn) ==
    IF sortOn THEN SortUris(ApplyAll(uris, approved))
    ELSE ApplyAll(uris, approved)

\* A Snapshot is the playlist's uri sequence at a point in time; two
\* snapshots of one playlist with the same uris restore the same state.
Snapshot(p, uris) == [id |-> <<p, uris>>, playlist_id |-> p, uris |-> uris]

TakeSnapshot(p) == snapshots \cup {Snapshot(p, remote[p])}

\* apply_changes: snapshot, write the final uri sequence, record the
\* rejected changes as ignore entries.
apply_changes(p, approved, rejected, sortOn) ==
    /\ snapshots' = TakeSnapshot(p)
    /\ remote' = [remote EXCEPT ![p] = FinalUris(remote[p], approved, sortOn)]
    /\ ignored' = ignored \cup {IgnoreEntryOf(rejected[i]) : i \in DOMAIN rejected}
    /\ preApply' = [preApply EXCEPT ![p] = remote[p]]

\* remove_ignored_tracks
remove_ignored_tracks(trackIds) == ignored' = ignored \ trackIds

\* ------------------------------------------------------------ store.ts
\* The selection is read by handleRunProcess only: toggling is taken while
\* the run button is shown.
togglePlaylistSelection(id) ==
    /\ ~isProcessing
    /\ runCount < MaxRuns
    /\ selectedPlaylistIds' =
          IF id \in Range(selectedPlaylistIds)
          THEN SelectSeq(selectedPlaylistIds, LAMBDA pid : pid # id)
          ELSE Append(selectedPlaylistIds, id)
    /\ UNCHANGED <<isProcessing, shouldCancel, sortEnabled, sortRules,
                   reviewQueue, activeReview, activeModal, loopVars,
                   modalVars, otherVars, applyCalls, backendVars, runCount, scanLog,
                   errorLog, rejectedLive>>

\* ------------------------------------------------------------- App.tsx
\* Variant: the run button is shown while a run is in progress.
handleRunProcess_WhileProcessing ==
    /\ Len(selectedPlaylistIds) # 0
    /\ runCount < MaxRuns
    /\ runCount' = runCount + 1
    /\ shouldCancel' = FALSE
    /\ IF sortEnabled /\ Len(sortRules) = 0
       THEN UNCHANGED <<isProcessing, loopPc, loopIds, currentIndex,
                        scanLog, errorLog>>
       ELSE /\ isProcessing' = TRUE
            /\ loopPc' = "check"
            /\ loopIds' = selectedPlaylistIds
            /\ currentIndex' = 0
            /\ scanLog' = <<>>
            /\ errorLog' = {}
    /\ UNCHANGED <<selectedPlaylistIds, sortEnabled, sortRules, reviewQueue,
                   activeReview, activeModal, loopState, modalVars, otherVars,
                   applyCalls, backendVars, rejectedLive>>

\* Variant: the run starts without looking at the sort rules.
handleRunProcess_NoValidation ==
    /\ ~isProcessing
    /\ Len(selectedPlaylistIds) # 0
    /\ runCount < MaxRuns
    /\ runCount' = runCount + 1
    /\ shouldCancel' = FALSE
    /\ isProcessing' = TRUE
    /\ loopPc' = "check"
    /\ loopIds' = selectedPlaylistIds
    /\ currentIndex' = 0
    /\ scanLog' = <<>>
    /\ errorLog' = {}
    /\ UNCHANGED <<selectedPlaylistIds, sortEnabled, sortRules, reviewQueue,
                   activeReview, activeModal, loopState, modalVars, otherVars,
                   applyCalls, backendVars, rejectedLive>>

\* Variant: the run starts without resetCancel().
handleRunProcess_KeepsCancel ==
    /\ ~isProcessing
    /\ Len(selectedPlaylistIds) # 0
    /\ runCount < MaxRuns
    /\ runCount' = runCount + 1
    /\ UNCHANGED shouldCancel
    /\ IF sortEnabled /\ Len(sortRules) = 0
       THEN UNCHANGED <<isProcessing, loopPc, loopIds, currentIndex,
                        scanLog, errorLog>>
       ELSE /\ isProcessing' = TRUE
            /\ loopPc' = "check"
            /\ loopIds' = selectedPlaylistIds
            /\ currentIndex' = 0
            /\ scanLog' = <<>>
            /\ errorLog' = {}
    /\ UNCHANGED <<selectedPlaylistIds, sortEnabled, sortRules, reviewQueue,
                   activeReview, activeModal, loopState, modalVars, otherVars,
                   applyCalls, backendVars, rejectedLive>>

\* ActionButtons shows the run button only while not processing and
\* disables it for an empty selection.
handleRunProcess ==
    /\ ~isProcessing
    /\ Len(selectedPlaylistIds) # 0
    /\ runCount < MaxRuns
    /\ runCount' = runCount + 1
    /\ shouldCancel' = FALSE
    /\ IF sortEnabled /\ Len(sortRules) = 0
       THEN UNCHANGED <<isProcessing, loopPc, loopIds, currentIndex,
                        scanLog, errorLog>>
       ELSE /\ isProcessing' = TRUE
            /\ loopPc' = "check"
            /\ loopIds' = selectedPlaylistIds
            /\ currentIndex' = 0
            /\ scanLog' = <<>>
            /\ errorLog' = {}
    /\ UNCHANGED <<selectedPlaylistIds, sortEnabled, sortRules, reviewQueue,
                   activeReview, activeModal, loopState, modalVars, otherVars,
                   applyCalls, backendVars, rejectedLive>>

\* The cancel button replaces the run button while processing.
handleCancelProcess ==
    /\ isProcessing
    /\ ~shouldCancel
    /\ shouldCancel' = TRUE
    /\ UNCHANGED <<selectedPlaylistIds, isProcessing, sortEnabled, sortRules,
                   reviewQueue, activeReview, activeModal, loopVars,
                   modalVars, otherVars, applyCalls, backendVars, runCount, scanLog,
                   errorLog, rejectedLive>>

\* ---- performScanLoop (App.tsx 156-227)
CurrentPlaylist == loopIds[currentIndex + 1]

\* Variant: the loop does not look at the cancel flag.
LoopIteration_IgnoresCancel ==
    /\ loopPc = "check"
    /\ IF currentIndex >= Len(loopIds)
       THEN /\ isProcessing' = FALSE
            /\ loopPc' = "idle"
            /\ UNCHANGED <<loopState, scanLog>>
       ELSE /\ loopState' = [sortEnabled |-> sortEnabled, sortRules |-> sortRules]
            /\ loopPc' = "scanning"
            /\ scanLog' = Append(scanLog, CurrentPlaylist)
            /\ UNCHANGED isProcessing
    /\ UNCHANGED <<selectedPlaylistIds, shouldCancel, sortEnabled, sortRules,
                   reviewQueue, activeReview, activeModal, loopIds,
                   currentIndex, modalVars, otherVars, applyCalls,
                   backendVars, runCount, errorLog, rejectedLive>>

\* Variant: the loop scans the next playlist only when no review is open
\* or queued.
LoopIteration_WaitsForReview ==
    /\ loopPc = "check"
    /\ activeReview = NoReview
    /\ reviewQueue = <<>>
    /\ IF currentIndex >= Len(loopIds) \/ shouldCancel
       THEN /\ isProcessing' = FALSE
            /\ loopPc' = "idle"
            /\ UNCHANGED <<loopState, scanLog>>
       ELSE /\ loopState' = [sortEnabled |-> sortEnabled, sortRules |-> sortRules]
            /\ loopPc' = "scanning"
            /\ scanLog' = Append(scanLog, CurrentPlaylist)
            /\ UNCHANGED isProcessing
    /\ UNCHANGED <<selectedPlaylistIds, shouldCancel, sortEnabled, sortRules,
                   reviewQueue, activeReview, activeModal, loopIds,
                   currentIndex, modalVars, otherVars, applyCalls,
                   backendVars, runCount, errorLog, rejectedLive>>

\* Top of the for statement: the list is exhausted or the cancel flag is
\* set (the loop ends and isProcessing is reset), or scan_playlist is
\* invoked with the settings read from the store at this moment.
LoopIteration ==
    /\ loopPc = "check"
    /\ IF currentIndex >= Len(loopIds) \/ shouldCancel
       THEN /\ isProcessing' = FALSE
            /\ loopPc' = "idle"
            /\ UNCHANGED <<loopState, scanLog>>
       ELSE /\ loopState' = [sortEnabled |-> sortEnabled, sortRules |-> sortRules]
            /\ loopPc' = "scanning"
            /\ scanLog' = Append(scanLog, CurrentPlaylist)
            /\ UNCHANGED isProcessing
    /\ UNCHANGED <<selectedPlaylistIds, shouldCancel, sortEnabled, sortRules,
                   reviewQueue, activeReview, activeModal, loopIds,
                   currentIndex, modalVars, otherVars, applyCalls, backendVars,
                   runCount, errorLog, rejectedLive>>

\* Variant: a result that has changes is applied at once instead of queued.
ScanFindsChanges_AutoApplies ==
    /\ loopPc = "scanning"
    /\ scan_playlist(CurrentPlaylist) # <<>>
    /\ loopPc' = "applying"
    /\ UNCHANGED <<storeVars, reviewQueue, activeReview, activeModal, loopIds,
                   currentIndex, loopState, modalVars, otherVars, applyCalls,
                   backendVars, runCount, scanLog, errorLog, rejectedLive>>

\* scan_playlist resolved with a result that has changes: it is queued.
\* scannedWith is bookkeeping, not a field of ScanResult: the settings that
\* were passed to the scan_playlist call this result answers.
ScanFindsChanges ==
    /\ loopPc = "scanning"
    /\ scan_playlist(CurrentPlaylist) # <<>>
    /\ reviewQueue' = Append(reviewQueue,
                             [playlist_id |-> CurrentPlaylist,
                              changes |-> scan_playlist(CurrentPlaylist),
                              scannedWith |-> loopState])
    /\ currentIndex' = currentIndex + 1
    /\ loopPc' = "check"
    /\ UNCHANGED <<storeVars, activeReview, activeModal, loopIds, loopState,
                   modalVars, otherVars, applyCalls, backendVars, runCount, scanLog,
                   errorLog, rejectedLive>>

\* scan_playlist resolved with a result without changes: the sort is
\* applied at once when the result says the order changed and sorting was
\* enabled for this scan; apply_changes is invoked with empty lists.
ScanFindsNoChanges(sorted) ==
    /\ loopPc = "scanning"
    /\ scan_playlist(CurrentPlaylist) = <<>>
    /\ IF sorted /\ loopState.sortEnabled
       THEN /\ loopPc' = "applying"
            /\ UNCHANGED currentIndex
       ELSE /\ loopPc' = "check"
            /\ currentIndex' = currentIndex + 1
    /\ UNCHANGED <<storeVars, reviewQueue, activeReview, activeModal,
                   loopIds, loopState, modalVars, otherVars, applyCalls, backendVars,
                   runCount, scanLog, errorLog, rejectedLive>>

\* scan_playlist resolved with an empty list.
ScanReturnsNothing ==
    /\ loopPc = "scanning"
    /\ currentIndex' = currentIndex + 1
    /\ loopPc' = "check"
    /\ UNCHANGED <<storeVars, reviewQueue, activeReview, activeModal,
                   loopIds, loopState, modalVars, otherVars, applyCalls, backendVars,
                   runCount, scanLog, errorLog, rejectedLive>>

\* Variant: the catch block leaves the loop.
CatchBlock_Aborts(is429) ==
    /\ errorLog' = IF is429 THEN errorLog ELSE errorLog \cup {CurrentPlaylist}
    /\ currentIndex' = Len(loopIds)
    /\ loopPc' = "check"

\* The catch block: a 429 pauses for five seconds, any other error is
\* logged with the playlist id; either way the loop goes on.
CatchBlock(is429) ==
    IF is429
    THEN /\ loopPc' = "sleeping"
         /\ UNCHANGED <<errorLog, currentIndex>>
    ELSE /\ errorLog' = errorLog \cup {CurrentPlaylist}
         /\ currentIndex' = currentIndex + 1
         /\ loopPc' = "check"

ScanFails(is429) ==
    /\ loopPc = "scanning"
    /\ CatchBlock(is429)
    /\ UNCHANGED <<storeVars, reviewQueue, activeReview, activeModal,
                   loopIds, loopState, modalVars, otherVars, applyCalls, backendVars,
                   runCount, scanLog, rejectedLive>>

\* The automatic apply_changes resolved.
AutoApplyReturns ==
    /\ loopPc = "applying"
    /\ apply_changes(CurrentPlaylist, <<>>, <<>>, loopState.sortEnabled)
    /\ currentIndex' = currentIndex + 1
    /\ loopPc' = "check"
    /\ UNCHANGED <<runVars, storeVars, reviewQueue, activeReview, activeModal,
                   loopIds, loopState, modalVars, historyVars, applyCalls,
                   runCount, scanLog, errorLog, rejectedLive>>

AutoApplyFails(is429) ==
    /\ loopPc = "applying"
    /\ CatchBlock(is429)
    /\ UNCHANGED <<storeVars, reviewQueue, activeReview, activeModal,
                   loopIds, loopState, modalVars, otherVars, applyCalls, backendVars,
                   runCount, scanLog, rejectedLive>>

\* setTimeout(r, 5000) fired.
RateLimitPauseEnds ==
    /\ loopPc = "sleeping"
    /\ currentIndex' = currentIndex + 1
    /\ loopPc' = "check"
    /\ UNCHANGED <<storeVars, reviewQueue, activeReview, activeModal,
                   loopIds, loopState, modalVars, otherVars, applyCalls, backendVars,
                   runCount, scanLog, errorLog, rejectedLive>>

\* ---- review queue consumer (App.tsx 146-154)
ChangeIds(changes) == {changes[i].id : i \in DOMAIN changes}

\* ReviewModal is rendered (App.tsx 388).
ReviewMounted == activeModal = "review" /\ activeReview # NoReview

\* ReviewModal's useState initialisers (SortSection.tsx 252-259): every
\* change checked, empty search box.  Unmounted, the component has no state.
ReviewModalMount(changes) ==
    /\ checkedIds' = ChangeIds(changes)
    /\ searchQuery' = <<>>

ReviewModalUnmount ==
    /\ checkedIds' = {}
    /\ searchQuery' = <<>>

\* The effect shows the next queued result when no review is active.
ReviewConsumer ==
    /\ activeReview = NoReview
    /\ Len(reviewQueue) > 0
    /\ activeModal # "review"
    /\ reviewQueue' = Tail(reviewQueue)
    /\ activeReview' = Head(reviewQueue)
    /\ activeModal' = "review"
    /\ ReviewModalMount(Head(reviewQueue).changes)
    /\ UNCHANGED <<storeVars, loopVars, otherVars, applyCalls, backendVars,
                   runCount, scanLog, errorLog, rejectedLive>>

\* closeReviewModal (App.tsx 292-296)
closeReviewModal ==
    /\ activeReview' = NoReview
    /\ activeModal' = "none"
    /\ ReviewModalUnmount

\* Variant: every change is passed as approved.
approvedChanges_All(changes, approvedIds) == changes

\* handleApplyReview 260-261: the partition by the approved ids.
approvedChanges(changes, approvedIds) ==
    SelectSeq(changes, LAMBDA c : c.id \in approvedIds)

\* Variant: nothing is handed over as rejected.
rejectedChanges_None(changes, approvedIds) == <<>>

rejectedChanges(changes, approvedIds) ==
    SelectSeq(changes, LAMBDA c : c.id \notin approvedIds)

FreeCallNo == CHOOSE n \in 1..(MaxApplyCalls + 1) : \A c \in applyCalls : c.n # n

\* handleApplyReview up to its await: apply_changes is invoked with the
\* partition and with the sort settings read from the store now.
handleApplyReview(approvedIds) ==
    /\ ReviewMounted
    /\ Cardinality(applyCalls) < MaxApplyCalls
    /\ applyCalls' = applyCalls \cup
          {[n |-> FreeCallNo,
            playlist_id |-> activeReview.playlist_id,
            changes |-> activeReview.changes,
            approvedIds |-> approvedIds,
            approvedChanges |-> approvedChanges(activeReview.changes, approvedIds),
            rejectedChanges |-> rejectedChanges(activeReview.changes, approvedIds),
            sortRules |-> sortRules,
            sortEnabled |-> sortEnabled]}
    /\ UNCHANGED <<storeVars, reviewQueue, activeReview, activeModal,
                   loopVars, modalVars, otherVars, backendVars, runCount, scanLog,
                   errorLog, rejectedLive>>

\* What the user turned down in a review: the entries of the unchecked changes.
UserRejected(call) ==
    {IgnoreEntryOf(call.changes[i]) :
        i \in {j \in DOMAIN call.changes : call.changes[j].id \notin call.approvedIds}}

\* apply_changes resolved: the rest of the try block closes the review.
ApplyReviewReturns(call) ==
    /\ call \in applyCalls
    /\ applyCalls' = applyCalls \ {call}
    /\ apply_changes(call.playlist_id, call.approvedChanges,
                     call.rejectedChanges, call.sortEnabled)
    /\ rejectedLive' = rejectedLive \cup UserRejected(call)
    /\ closeReviewModal
    /\ UNCHANGED <<runVars, storeVars, reviewQueue, loopVars, historyVars, runCount,
                   scanLog, errorLog>>

\* apply_changes rejected: the catch block closes the review as well.
ApplyReviewFails(call) ==
    /\ call \in applyCalls
    /\ applyCalls' = applyCalls \ {call}
    /\ closeReviewModal
    /\ UNCHANGED <<storeVars, reviewQueue, loopVars, otherVars, backendVars,
                   runCount, scanLog, errorLog, rejectedLive>>

handleCancelReview ==
    /\ ReviewMounted
    /\ closeReviewModal
    /\ UNCHANGED <<storeVars, reviewQueue, loopVars, otherVars, applyCalls,
                   backendVars, runCount, scanLog, errorLog, rejectedLive>>

\* ---- the other dialogs (App.tsx 82-99, 333, 352-371, 401-440)
\* A button or a tray event sets activeModal.
OpenModal(m) ==
    /\ activeModal # m
    /\ activeModal' = m
    /\ ReviewModalUnmount
    /\ UNCHANGED <<storeVars, reviewQueue, activeReview, loopVars, otherVars,
                   applyCalls, backendVars, runCount, scanLog, errorLog,
                   rejectedLive>>

CloseModal ==
    /\ activeModal \in OtherModals
    /\ activeModal' = "none"
    /\ UNCHANGED <<storeVars, reviewQueue, activeReview, loopVars, modalVars, otherVars,
                   applyCalls, backendVars, runCount, scanLog, errorLog,
                   rejectedLive>>

\* IgnoredTracksModal.handleRemoveSelected (51-59), remove succeeded.
handleRemoveSelected(selectedIds) ==
    /\ activeModal = "ignored"
    /\ remove_ignored_tracks(selectedIds)
    /\ rejectedLive' = rejectedLive \ selectedIds
    /\ UNCHANGED <<storeVars, reviewQueue, activeReview, activeModal,
                   loopVars, modalVars, otherVars, applyCalls, remote, snapshots,
                   runCount, scanLog, errorLog>>

ScanNext ==
    \/ \E id \in PlaylistIds : togglePlaylistSelection(id)
    \/ handleRunProcess
    \/ handleCancelProcess
    \/ LoopIteration
    \/ ScanFindsChanges
    \/ \E sorted \in BOOLEAN : ScanFindsNoChanges(sorted)
    \/ ScanReturnsNothing
    \/ \E is429 \in BOOLEAN : ScanFails(is429)
    \/ AutoApplyReturns
    \/ \E is429 \in BOOLEAN : AutoApplyFails(is429)
    \/ RateLimitPauseEnds
    \/ ReviewConsumer
    \/ \E approvedIds \in SUBSET ChangeIds(activeReview.changes) :
          handleApplyReview(approvedIds)
    \/ \E call \in applyCalls : ApplyReviewReturns(call)
    \/ \E call \in applyCalls : ApplyReviewFails(call)
    \/ handleCancelReview
    \/ \E m \in OtherModals : OpenModal(m)
    \/ CloseModal
    \/ \E selectedIds \in (SUBSET ignored) \ {{}} : handleRemoveSelected(selectedIds)

SpecScan == ScanInit /\ [][ScanNext]_vars

\* ===================================================== sort settings
\* ---- store.ts 102-130, SortSection.tsx 47-205
\* The settings section lies under the overlay of whichever dialog is shown.
ModalShown == ReviewMounted \/ activeModal \notin {"none", "review"}

settingsUnchanged ==
    UNCHANGED <<selectedPlaylistIds, isProcessing, shouldCancel, reviewQueue,
                activeReview, activeModal, loopVars, modalVars, otherVars,
                applyCalls, backendVars, runCount, scanLog, errorLog,
                rejectedLive>>

\* store.ts 102, the checkbox of SortSection.tsx 98 and 115.
setSortEnabled(enabled) ==
    /\ ~ModalShown
    /\ enabled # sortEnabled
    /\ sortEnabled' = enabled
    /\ UNCHANGED sortRules
    /\ settingsUnchanged

\* store.ts 104-115, the dropdown of SortSection.tsx 121-138 (rendered
\* while sorting is enabled): the new rule is ascending, its id is fresh.
addSortRule(criteria) ==
    /\ ~ModalShown
    /\ sortEnabled
    /\ Len(sortRules) < MaxRules
    /\ sortRules' = IF Len(sortRules) >= 8 THEN sortRules
                    ELSE Append(sortRules,
                                [criteria |-> criteria, descending |-> FALSE])
    /\ UNCHANGED sortEnabled
    /\ settingsUnchanged

\* store.ts 117-121, the button of SortSection.tsx 192-198.  Rule ids are
\* unique, so the filter on the id removes the rule of that row only.
removeSortRule(index) ==
    /\ ~ModalShown
    /\ sortEnabled
    /\ index \in DOMAIN sortRules
    /\ sortRules' =
          IF Len(sortRules) <= 1 THEN sortRules
          ELSE [i \in 1..(Len(sortRules) - 1) |->
                   IF i < index THEN sortRules[i] ELSE sortRules[i + 1]]
    /\ UNCHANGED sortEnabled
    /\ settingsUnchanged

\* store.ts 123-128, the direction dropdown of SortSection.tsx 184-189.
updateSortRule(index, descending) ==
    /\ ~ModalShown
    /\ sortEnabled
    /\ index \in DOMAIN sortRules
    /\ sortRules' = [sortRules EXCEPT ![index].descending = descending]
    /\ UNCHANGED sortEnabled
    /\ settingsUnchanged

\* The two splices of handleMouseUp (SortSection.tsx 75-77).
MoveRule(rules, sourceIndex, targetIndex) ==
    LET without == [i \in 1..(Len(rules) - 1) |->
                       IF i < sourceIndex THEN rules[i] ELSE rules[i + 1]]
    IN SubSeq(without, 1, targetIndex - 1) \o <<rules[sourceIndex]>>
          \o SubSeq(without, targetIndex, Len(without))

\* SortSection.tsx 55-88, store.ts 130: a drag from one row to another.
\* handleMouseDown returns while processing.
handleMouseUp(sourceIndex, targetIndex) ==
    /\ ~ModalShown
    /\ sortEnabled
    /\ ~isProcessing
    /\ sourceIndex \in DOMAIN sortRules
    /\ targetIndex \in DOMAIN sortRules
    /\ sourceIndex # targetIndex
    /\ sortRules' = MoveRule(sortRules, sourceIndex, targetIndex)
    /\ UNCHANGED sortEnabled
    /\ settingsUnchanged

\* ---- runs and reviews with the settings section in use
\* The persisted store is rehydrated without validation (store.ts 163-175):
\* the stored rule list is the default one, or one written by another
\* build, here the empty list.
StoredRuleLists == {DefaultSortRules, <<>>}

SettingsInit == ScanInitWith(StoredRuleLists)

SettingsNext ==
    \/ togglePlaylistSelection(1)
    \/ handleRunProcess
    \/ handleCancelProcess
    \/ LoopIteration
    \/ ScanFindsChanges
    \/ \E sorted \in BOOLEAN : ScanFindsNoChanges(sorted)
    \/ AutoApplyReturns
    \/ ReviewConsumer
    \/ \E approvedIds \in SUBSET ChangeIds(activeReview.changes) :
          handleApplyReview(approvedIds)
    \/ \E call \in applyCalls : ApplyReviewReturns(call)
    \/ handleCancelReview
    \/ \E enabled \in BOOLEAN : setSortEnabled(enabled)
    \/ \E descending \in BOOLEAN : updateSortRule(1, descending)

SpecSettings == SettingsInit /\ [][SettingsNext]_vars

\* ---- reviews and the tray (App.tsx 82-99, 146-154, 388-440)
\* The dialogs the tray menu opens.
TrayModals == {"schedules", "change_port"}

\* App.tsx 429-432 and 439: onClose of DesktopSchedulesModal and of
\* ChangePortModal.
CloseTrayModal ==
    /\ activeModal \in TrayModals
    /\ activeModal' = "none"
    /\ UNCHANGED <<storeVars, reviewQueue, activeReview, loopVars, modalVars,
                   otherVars, applyCalls, backendVars, runCount, scanLog,
                   errorLog, rejectedLive>>

TrayNext ==
    \/ \E id \in PlaylistIds : togglePlaylistSelection(id)
    \/ handleRunProcess
    \/ LoopIteration
    \/ ScanFindsChanges
    \/ ScanFindsNoChanges(FALSE)
    \/ ReviewConsumer
    \/ handleApplyReview(ChangeIds(activeReview.changes))
    \/ \E call \in applyCalls : ApplyReviewReturns(call)
    \/ handleCancelReview
    \/ \E m \in TrayModals : OpenModal(m)
    \/ CloseTrayModal

SpecTray == ScanInit /\ [][TrayNext]_vars

\* The backend answers, the loop and the consumer effect run, and the user
\* closes a tray dialog and decides a review that is shown; nothing makes
\* the user start a run or open the tray menu.
TrayFairness ==
    /\ WF_vars(LoopIteration)
    /\ WF_vars(ScanFindsChanges \/ ScanFindsNoChanges(FALSE))
    /\ WF_vars(ReviewConsumer)
    /\ WF_vars(\E call \in applyCalls : ApplyReviewReturns(call))
    /\ WF_vars(handleCancelReview
                 \/ handleApplyReview(ChangeIds(activeReview.changes)))
    /\ WF_vars(CloseTrayModal)

FairSpecTray == ScanInit /\ [][TrayNext]_vars /\ TrayFairness

\* ---- the rule editor on its own
RulesNext ==
    \/ \E enabled \in BOOLEAN : setSortEnabled(enabled)
    \/ \E criteria \in SORT_CRITERIA : addSortRule(criteria)
    \/ \E index \in 1..MaxRules : removeSortRule(index)
    \/ \E index \in 1..MaxRules, descending \in BOOLEAN :
          updateSortRule(index, descending)
    \/ \E sourceIndex, targetIndex \in 1..MaxRules :
          handleMouseUp(sourceIndex, targetIndex)

\* ============================================ ReviewModal and HistoryModal
\* ---- ReviewModal (SortSection.tsx 273-313)
toLowerCase(text) ==
    [i \in DOMAIN text |->
        IF text[i] = "A" THEN "a" ELSE IF text[i] = "D" THEN "d" ELSE text[i]]

\* String.prototype.includes
includes(text, q) ==
    \E i \in 0..(Len(text) - Len(q)) : SubSeq(text, i + 1, i + Len(q)) = q

filteredChanges ==
    SelectSeq(activeReview.changes,
              LAMBDA c :
                  \/ searchQuery = <<>>
                  \/ LET q == toLowerCase(searchQuery)
                     IN \/ includes(toLowerCase(c.newTitle), q)
                        \/ includes(toLowerCase(c.newArtist), q)
                        \/ includes(toLowerCase(c.remTitle), q)
                        \/ includes(toLowerCase(c.remArtist), q))

reviewUnchanged ==
    UNCHANGED <<storeVars, reviewQueue, activeReview, activeModal, loopVars,
                otherVars, applyCalls, backendVars, runCount, scanLog,
                errorLog, rejectedLive>>

setSearchQuery(q) ==
    /\ ReviewMounted
    /\ q # searchQuery
    /\ searchQuery' = q
    /\ UNCHANGED checkedIds
    /\ reviewUnchanged

\* A row of the filtered list is clicked.
toggleChange(id) ==
    /\ ReviewMounted
    /\ id \in ChangeIds(filteredChanges)
    /\ checkedIds' = IF id \in checkedIds THEN checkedIds \ {id}
                                          ELSE checkedIds \cup {id}
    /\ UNCHANGED searchQuery
    /\ reviewUnchanged

handleSelectAll ==
    /\ ReviewMounted
    /\ checkedIds' = checkedIds \cup ChangeIds(filteredChanges)
    /\ UNCHANGED searchQuery
    /\ reviewUnchanged

handleDeselectAll ==
    /\ ReviewMounted
    /\ checkedIds' = checkedIds \ ChangeIds(filteredChanges)
    /\ UNCHANGED searchQuery
    /\ reviewUnchanged

\* The Apply button: onApprove(checkedIds).
ReviewModalApprove == handleApplyReview(checkedIds)

\* ---- HistoryModal (HistoryModal.tsx 38-85, 233-275)
\* get_history: one item per snapshot, its id the snapshot's id.
get_history == {[id |-> sn.id, playlistName |-> sn.playlist_id] : sn \in snapshots}

\* restore_snapshot: the playlist is written back to the snapshot's uris.
restore_snapshot(snapshotId) ==
    \E sn \in snapshots :
        /\ sn.id = snapshotId
        /\ remote' = [remote EXCEPT ![sn.playlist_id] = sn.uris]
        /\ preApply' = [preApply EXCEPT ![sn.playlist_id] = NoApply]

\* The Undo History button: the dialog mounts and loads the list.
openHistoryModal ==
    /\ activeModal # "history"
    /\ activeModal' = "history"
    /\ ReviewModalUnmount
    /\ history' = get_history
    /\ confirmRestoreId' = NoItem
    /\ isRestoring' = FALSE
    /\ UNCHANGED <<runVars, storeVars, reviewQueue, activeReview, loopVars,
                   restoreCalls, preApply, applyCalls, backendVars, runCount,
                   scanLog, errorLog, rejectedLive>>

closeHistoryModal ==
    /\ activeModal = "history"
    /\ activeModal' = "none"
    /\ UNCHANGED <<storeVars, reviewQueue, activeReview, loopVars, modalVars,
                   otherVars, applyCalls, backendVars, runCount, scanLog,
                   errorLog, rejectedLive>>

\* The Undo button of an item: setConfirmRestoreId(item.id).
confirmRestore(item) ==
    /\ activeModal = "history"
    /\ item \in history
    /\ ~isRestoring
    /\ confirmRestoreId # item.id
    /\ confirmRestoreId' = item.id
    /\ UNCHANGED <<runVars, storeVars, reviewQueue, activeReview, activeModal,
                   loopVars, modalVars, history, isRestoring, restoreCalls,
                   preApply, applyCalls, backendVars, runCount, scanLog,
                   errorLog, rejectedLive>>

\* Variant: the id of some item of the list is passed, not the clicked one's.
handleRestore_AnyItem(item) ==
    /\ activeModal = "history"
    /\ item \in history
    /\ confirmRestoreId = item.id
    /\ Cardinality(restoreCalls) < MaxRestoreCalls
    /\ isRestoring' = TRUE
    /\ \E other \in history :
          restoreCalls' = restoreCalls \cup
              {[item |-> item, snapshotId |-> other.id]}
    /\ UNCHANGED <<runVars, storeVars, reviewQueue, activeReview, activeModal,
                   loopVars, modalVars, history, confirmRestoreId, preApply,
                   applyCalls, backendVars, runCount, scanLog, errorLog,
                   rejectedLive>>

\* The YES button, up to the await: restore_snapshot is invoked with the
\* clicked item's id.
handleRestore(item) ==
    /\ activeModal = "history"
    /\ item \in history
    /\ confirmRestoreId = item.id
    /\ Cardinality(restoreCalls) < MaxRestoreCalls
    /\ isRestoring' = TRUE
    /\ restoreCalls' = restoreCalls \cup
          {[item |-> item, snapshotId |-> item.id]}
    /\ UNCHANGED <<runVars, storeVars, reviewQueue, activeReview, activeModal,
                   loopVars, modalVars, history, confirmRestoreId, preApply,
                   applyCalls, backendVars, runCount, scanLog, errorLog,
                   rejectedLive>>

\* restore_snapshot resolved.
RestoreReturns(call) ==
    /\ call \in restoreCalls
    /\ restoreCalls' = restoreCalls \ {call}
    /\ restore_snapshot(call.snapshotId)
    /\ isRestoring' = FALSE
    /\ confirmRestoreId' = NoItem
    /\ UNCHANGED <<runVars, storeVars, reviewQueue, activeReview, activeModal,
                   loopVars, modalVars, history, applyCalls, ignored,
                   snapshots, runCount, scanLog, errorLog, rejectedLive>>

\* restore_snapshot rejected: the alert, then the same resets.
RestoreFails(call) ==
    /\ call \in restoreCalls
    /\ restoreCalls' = restoreCalls \ {call}
    /\ isRestoring' = FALSE
    /\ confirmRestoreId' = NoItem
    /\ UNCHANGED <<runVars, storeVars, reviewQueue, activeReview, activeModal,
                   loopVars, modalVars, history, preApply, applyCalls,
                   backendVars, runCount, scanLog, errorLog, rejectedLive>>

\* Another client of the catalog adds a track to the playlist.
RemoteMutation(p) ==
    /\ Extra(p) \notin Range(remote[p])
    /\ remote' = [remote EXCEPT ![p] = Append(remote[p], Extra(p))]
    /\ preApply' = [preApply EXCEPT ![p] = NoApply]
    /\ UNCHANGED <<runVars, storeVars, reviewQueue, activeReview, activeModal,
                   loopVars, modalVars, historyVars, applyCalls, ignored,
                   snapshots, runCount, scanLog, errorLog, rejectedLive>>

\* A run over every playlist has ended and its results wait for review.
ReviewInit ==
    /\ RunVarsInit
    /\ app = "desktop"
    /\ selectedPlaylistIds = [i \in 1..NumPlaylists |-> i]
    /\ isProcessing = FALSE
    /\ shouldCancel = FALSE
    /\ sortEnabled \in BOOLEAN
    /\ sortRules = DefaultSortRules
    /\ remote = [p \in PlaylistIds |-> InitialTracks(p)]
    /\ ignored = {}
    /\ snapshots = {}
    /\ reviewQueue = [i \in 1..NumPlaylists |->
                         [playlist_id |-> i,
                          changes |-> <<ReplaceChange(i), DuplicateChange(i)>>]]
    /\ activeReview = NoReview
    /\ activeModal = "none"
    /\ loopPc = "idle"
    /\ loopIds = selectedPlaylistIds
    /\ currentIndex = NumPlaylists
    /\ loopState = [sortEnabled |-> sortEnabled, sortRules |-> sortRules]
    /\ checkedIds = {}
    /\ searchQuery = <<>>
    /\ applyCalls = {}
    /\ runCount = 1
    /\ scanLog = loopIds
    /\ errorLog = {}
    /\ rejectedLive = {}
    /\ history = {}
    /\ confirmRestoreId = NoItem
    /\ isRestoring = FALSE
    /\ restoreCalls = {}
    /\ preApply = [p \in PlaylistIds |-> NoApply]

ReviewNext ==
    \/ ReviewConsumer
    \/ \E q \in Queries : setSearchQuery(q)
    \/ \E id \in ChangeIds(activeReview.changes) : toggleChange(id)
    \/ handleSelectAll
    \/ handleDeselectAll
    \/ ReviewModalApprove
    \/ \E call \in applyCalls : ApplyReviewReturns(call)
    \/ \E call \in applyCalls : ApplyReviewFails(call)
    \/ handleCancelReview
    \/ openHistoryModal
    \/ closeHistoryModal
    \/ \E item \in history : confirmRestore(item)
    \/ \E item \in history : handleRestore(item)
    \/ \E call \in restoreCalls : RestoreReturns(call)
    \/ \E call \in restoreCalls : RestoreFails(call)
    \/ \E p \in PlaylistIds : RemoteMutation(p)

SpecReview == ReviewInit /\ [][ReviewNext]_vars

\* ==================================== runs of dynamic playlist configs
desktopVars == <<scanVars, historyVars, preApply, app, restVars>>

\* ---- server: the merge engine's trigger surface and RunHistory
Running(c) ==
    \E i \in DOMAIN runHistory :
        runHistory[i].config_id = c /\ runHistory[i].status = "running"

\* runNow / the scheduler's trigger: a RunHistory entry is created in
\* status running, unless a run of the config is in flight; then the
\* trigger is skipped and recorded as a failed entry.
Trigger(c, by) ==
    Append(runHistory,
           IF Running(c)
           THEN [config_id |-> c, status |-> "failed",
                 error_message |-> "skipped", triggered_by |-> by,
                 applied |-> FALSE]
           ELSE [config_id |-> c, status |-> "running",
                 error_message |-> "none", triggered_by |-> by,
                 applied |-> FALSE])

\* The scheduler reaches a schedule's nextRun.
ScheduleFires(c) ==
    /\ app = "server"
    /\ Len(runHistory) < MaxHistory
    /\ runHistory' = Trigger(c, "schedule")
    /\ UNCHANGED <<desktopVars, runningId, runs, updatingId, updatePc,
                   dropped, alerted>>

\* A run ends: its result is applied in full and the entry becomes
\* success, or the entry becomes failed with an error message.
ServerRunEnds(hid, ok) ==
    /\ app = "server"
    /\ hid \in DOMAIN runHistory
    /\ runHistory[hid].status = "running"
    /\ runHistory' = [runHistory EXCEPT ![hid] =
          IF ok THEN [@ EXCEPT !.status = "success", !.applied = TRUE]
                ELSE [@ EXCEPT !.status = "failed", !.error_message = "error"]]
    /\ UNCHANGED <<desktopVars, runningId, runs, updatingId, updatePc,
                   dropped, alerted>>

\* ---- Dashboard.handleRunNow (Dashboard.tsx 40-108)
NewRun(id) ==
    [cfg |-> id, pc |-> "posting", historyId |-> 0, attempts |-> 0,
     pending |-> 0]

\* Variant: no look at runningId.
handleRunNow_Unguarded(id) ==
    /\ app = "server"
    /\ Len(runs) < MaxClicks
    /\ runningId' = id
    /\ runs' = Append(runs, NewRun(id))
    /\ UNCHANGED <<desktopVars, updatingId, updatePc, runHistory, dropped,
                   alerted>>

\* A click on a Run button.  While runningId is set every Run button is
\* disabled (166) and the handler returns at once (42); otherwise the
\* marker is set and the POST is sent.
handleRunNow(id) ==
    /\ app = "server"
    /\ IF runningId # 0
       THEN /\ Len(dropped) < MaxDropped
            /\ dropped' = Append(dropped, id)
            /\ UNCHANGED <<runningId, runs>>
       ELSE /\ Len(runs) < MaxClicks
            /\ runningId' = id
            /\ runs' = Append(runs, NewRun(id))
            /\ UNCHANGED dropped
    /\ UNCHANGED <<desktopVars, updatingId, updatePc, runHistory, alerted>>

\* An interval that was cleared keeps of its counter only whether the
\* limit was reached.
Stopped(r) ==
    [r EXCEPT !.pc = "stopped",
              !.attempts = IF r.attempts >= maxAttempts THEN maxAttempts ELSE 0]

\* The POST resolved with res.ok: the server has handled the trigger, the
\* returned entry's id is kept and the poll interval is started.
PostReturnsOk(h) ==
    /\ app = "server"
    /\ h \in DOMAIN runs
    /\ runs[h].pc = "posting"
    /\ Len(runHistory) < MaxHistory
    /\ runHistory' = Trigger(runs[h].cfg, "manual")
    /\ runs' = [runs EXCEPT ![h] =
          [@ EXCEPT !.pc = "polling", !.historyId = Len(runHistory) + 1]]
    /\ UNCHANGED <<desktopVars, runningId, updatingId, updatePc, dropped,
                   alerted>>

\* Variant: a request that fails leaves runningId set.
PostFails_KeepsMarker(h, served) ==
    /\ app = "server"
    /\ h \in DOMAIN runs
    /\ runs[h].pc = "posting"
    /\ IF served
       THEN /\ Len(runHistory) < MaxHistory
            /\ runHistory' = Trigger(runs[h].cfg, "manual")
       ELSE UNCHANGED runHistory
    /\ runs' = [runs EXCEPT ![h] = Stopped(@)]
    /\ UNCHANGED <<desktopVars, runningId, updatingId, updatePc, dropped,
                   alerted>>

\* The POST resolved with !res.ok (alert, setRunningId(null)) or the fetch
\* threw (catch: alert, setRunningId(null)); the server may have handled
\* the trigger all the same.
PostFails(h, served) ==
    /\ app = "server"
    /\ h \in DOMAIN runs
    /\ runs[h].pc = "posting"
    /\ IF served
       THEN /\ Len(runHistory) < MaxHistory
            /\ runHistory' = Trigger(runs[h].cfg, "manual")
       ELSE UNCHANGED runHistory
    /\ runningId' = 0
    /\ runs' = [runs EXCEPT ![h] = Stopped(@)]
    /\ UNCHANGED <<desktopVars, updatingId, updatePc, dropped, alerted>>

\* setInterval fires: attempts++ and the history fetch is sent.
PollTick(h) ==
    /\ app = "server"
    /\ h \in DOMAIN runs
    /\ runs[h].pc = "polling"
    /\ runs[h].pending < MaxPending
    /\ runs' = [runs EXCEPT ![h] =
          [@ EXCEPT !.attempts = IF @ < maxAttempts THEN @ + 1 ELSE @,
                    !.pending = @ + 1]]
    /\ UNCHANGED <<desktopVars, runningId, updatingId, updatePc, runHistory,
                   dropped, alerted>>

\* What one callback does once its fetch is over.
PollOutcome(h, fetched, seesSuccess, seesFailed) ==
    LET r == runs[h]
        timedOut == r.attempts >= maxAttempts
        clears == seesSuccess \/ seesFailed \/ timedOut
    IN /\ runs' = [runs EXCEPT ![h] =
             IF clears THEN Stopped([r EXCEPT !.pending = @ - 1])
                       ELSE [r EXCEPT !.pending = @ - 1]]
       /\ runningId' = IF clears THEN 0 ELSE runningId
       /\ alerted' = IF seesFailed THEN alerted \cup {r.historyId} ELSE alerted

\* Variant: the callback looks for any failed entry of the list.
PollReturns_AnyFailed(h, fetched) ==
    /\ app = "server"
    /\ h \in DOMAIN runs
    /\ runs[h].pending > 0
    /\ LET entry == runHistory[runs[h].historyId]
           failed == {i \in DOMAIN runHistory : runHistory[i].status = "failed"}
       IN IF fetched = "ok" /\ failed # {}
          THEN /\ runs' = [runs EXCEPT ![h] = Stopped([@ EXCEPT !.pending = @ - 1])]
               /\ runningId' = 0
               /\ alerted' = alerted \cup {CHOOSE i \in failed : TRUE}
          ELSE PollOutcome(h, fetched,
                           fetched = "ok" /\ entry.status = "success", FALSE)
    /\ UNCHANGED <<desktopVars, updatingId, updatePc, runHistory, dropped>>

\* The history fetch of a callback is over (ok, !ok or thrown): the entry
\* with the kept id is looked up; success or failed clears the interval
\* and runningId, and so does reaching maxAttempts.
PollReturns(h, fetched) ==
    /\ app = "server"
    /\ h \in DOMAIN runs
    /\ runs[h].pending > 0
    /\ LET entry == runHistory[runs[h].historyId]
       IN PollOutcome(h, fetched,
                      fetched = "ok" /\ entry.status = "success",
                      fetched = "ok" /\ entry.status = "failed")
    /\ UNCHANGED <<desktopVars, updatingId, updatePc, runHistory, dropped>>

\* ---- DynamicPlaylistSection.handleUpdate (75-88)
\* The Update buttons are disabled while updatingId is set (153).
handleUpdate(id) ==
    /\ app = "desktop"
    /\ updatingId = 0
    /\ updatingId' = id
    /\ updatePc' = "invoking"
    /\ UNCHANGED <<desktopVars, runningId, runs, runHistory, dropped, alerted>>

\* run_dynamic_update resolved or rejected: the message dialog is shown.
UpdateSettles(ok) ==
    /\ app = "desktop"
    /\ updatePc = "invoking"
    /\ updatePc' = IF ok THEN "message" ELSE "error_message"
    /\ UNCHANGED <<desktopVars, runningId, runs, updatingId, runHistory,
                   dropped, alerted>>

\* The dialog was closed (or failed to open): finally resets the marker.
MessageCloses ==
    /\ app = "desktop"
    /\ updatePc \in {"message", "error_message"}
    /\ updatePc' = "idle"
    /\ updatingId' = 0
    /\ UNCHANGED <<desktopVars, runningId, runs, runHistory, dropped, alerted>>

RunInit ==
    /\ RunVarsInit
    /\ selectedPlaylistIds = <<>>
    /\ isProcessing = FALSE
    /\ shouldCancel = FALSE
    /\ sortEnabled = TRUE
    /\ sortRules = DefaultSortRules
    /\ reviewQueue = <<>>
    /\ activeReview = NoReview
    /\ activeModal = "none"
    /\ loopPc = "idle"
    /\ loopIds = <<>>
    /\ currentIndex = 0
    /\ loopState = [sortEnabled |-> sortEnabled, sortRules |-> sortRules]
    /\ checkedIds = {}
    /\ searchQuery = <<>>
    /\ applyCalls = {}
    /\ remote = [p \in PlaylistIds |-> InitialTracks(p)]
    /\ ignored = {}
    /\ snapshots = {}
    /\ runCount = 0
    /\ scanLog = <<>>
    /\ errorLog = {}
    /\ rejectedLive = {}
    /\ history = {}
    /\ confirmRestoreId = NoItem
    /\ isRestoring = FALSE
    /\ restoreCalls = {}
    /\ preApply = [p \in PlaylistIds |-> NoApply]

RunNext ==
    \/ \E c \in ConfigIds : ScheduleFires(c)
    \/ \E hid \in DOMAIN runHistory, ok \in BOOLEAN : ServerRunEnds(hid, ok)
    \/ \E id \in ConfigIds : handleRunNow(id)
    \/ \E h \in DOMAIN runs : PostReturnsOk(h)
    \/ \E h \in DOMAIN runs, served \in BOOLEAN : PostFails(h, served)
    \/ \E h \in DOMAIN runs : PollTick(h)
    \/ \E h \in DOMAIN runs, fetched \in {"ok", "notok", "throws"} :
          PollReturns(h, fetched)
    \/ \E id \in ConfigIds : handleUpdate(id)
    \/ \E ok \in BOOLEAN : UpdateSettles(ok)
    \/ MessageCloses

SpecRun == RunInit /\ [][RunNext]_vars

\* The browser delivers responses and timer ticks, run_dynamic_update
\* settles, and the user closes the message dialog.
RunFairness ==
    /\ \A h \in 1..MaxClicks :
          /\ WF_vars(PostReturnsOk(h) \/ \E served \in BOOLEAN : PostFails(h, served))
          /\ WF_vars(PollTick(h))
          /\ WF_vars(\E fetched \in {"ok", "notok", "throws"} : PollReturns(h, fetched))
    /\ WF_vars(\E ok \in BOOLEAN : UpdateSettles(ok))
    /\ WF_vars(MessageCloses)

FairSpecRun == RunInit /\ [][RunNext]_vars /\ RunFairness

\* ===================================== PlaylistSelector (rate limiting)
\* ---- PlaylistSelector.tsx 13-87
\* The detail of a 429 response: a text, cut into words and runs of digits,
\* or something that is not a text.  The retry-after values are the ones the
\* governor is specified for (60 s, 120 s, 90000 s) and their neighbours.
RetryAfterValues == {0, 60, 120, 121, 90000}

Word == [digits |-> FALSE, value |-> 0]
Digits(n) == [digits |-> TRUE, value |-> n]

Details ==
    {[isString |-> TRUE, tokens |-> <<Word, Digits(n), Word>>] : n \in RetryAfterValues}
    \cup {[isString |-> TRUE, tokens |-> <<Word>>],
          [isString |-> FALSE, tokens |-> <<Digits(90000)>>]}

\* 26-28: message.match(/\d+/), parseInt of the first run of digits, 60
\* when the message has none.
ParseSeconds(detail) ==
    LET message == IF detail.isString THEN detail.tokens ELSE <<>>
        hits == {i \in DOMAIN message : message[i].digits}
    IN IF hits = {} THEN 60
       ELSE message[CHOOSE i \in hits : \A j \in hits : i <= j].value

Max0(n) == IF n > 0 THEN n ELSE 0

\* 53-54
remaining == Max0(waitTime)
isSpotifyBan == remaining > 120

\* The panel of lines 60-86 is rendered instead of the list.
SelectorBlocked == rateLimited

selectorUnchanged ==
    UNCHANGED <<scanVars, historyVars, preApply, runningId, runs, updatingId,
                updatePc, runHistory, dropped, alerted, app, engineVars,
                cronVars, formVars, compareVars>>

\* useState initialisers and the mount effect (14-22): the fetch is sent.
PlaylistSelectorMount ==
    /\ selectorPc = "unmounted"
    /\ rateLimited' = FALSE
    /\ waitTime' = 0
    /\ loading' = TRUE
    /\ selectorPc' = "fetching"
    /\ UNCHANGED <<cooldown, reloads>>
    /\ selectorUnchanged

\* 24-31 and 39-42: the fetch resolved with status 429.
FetchRateLimited(detail) ==
    /\ selectorPc = "fetching"
    /\ waitTime' = ParseSeconds(detail)
    /\ rateLimited' = TRUE
    /\ loading' = FALSE
    /\ selectorPc' = "done"
    /\ cooldown' = ParseSeconds(detail)
    /\ UNCHANGED reloads
    /\ selectorUnchanged

\* 33-38: any other response; 39-42: the fetch or res.json() threw.
FetchSettles ==
    /\ selectorPc = "fetching"
    /\ loading' = FALSE
    /\ selectorPc' = "done"
    /\ UNCHANGED <<rateLimited, waitTime, cooldown, reloads>>
    /\ selectorUnchanged

\* 45-50: the one-second interval of the countdown fires.
CountdownTick ==
    /\ rateLimited
    /\ waitTime > 0
    /\ waitTime' = Max0(waitTime - 1)
    /\ UNCHANGED <<rateLimited, loading, selectorPc, cooldown, reloads>>
    /\ selectorUnchanged

\* 76: the Check Status button reloads the page; the component mounts anew.
CheckStatus ==
    /\ rateLimited
    /\ reloads < MaxReloads
    /\ reloads' = reloads + 1
    /\ rateLimited' = FALSE
    /\ waitTime' = 0
    /\ loading' = TRUE
    /\ selectorPc' = "fetching"
    /\ cooldown' = 0
    /\ selectorUnchanged

GovernorInit ==
    /\ RunInit
    /\ app = "server"

GovernorNext ==
    \/ PlaylistSelectorMount
    \/ \E detail \in Details : FetchRateLimited(detail)
    \/ FetchSettles
    \/ CountdownTick
    \/ CheckStatus

SpecGovernor == GovernorInit /\ [][GovernorNext]_vars

\* Responses arrive and the interval keeps firing; nothing makes the user
\* press Check Status.
GovernorFairness ==
    /\ WF_vars(FetchSettles \/ \E detail \in Details : FetchRateLimited(detail))
    /\ WF_vars(CountdownTick)

FairSpecGovernor == GovernorInit /\ [][GovernorNext]_vars /\ GovernorFairness

\* ===================================================== merge pipeline
\* ---- Track model and comparators
\* TrackInfo: uri, name, artist, release_date (the year; 0 is unknown).
\* Track(1) and Track(3) are two versions of one song, Track(4) has no
\* release date.
Track(n) ==
    CASE n = 1 -> [uri |-> 1, name |-> <<"A", "b">>, artist |-> <<"c">>,
                   release_date |-> 2020]
      [] n = 2 -> [uri |-> 2, name |-> <<"D">>, artist |-> <<"c">>,
                   release_date |-> 2021]
      [] n = 3 -> [uri |-> 3, name |-> <<"a", "!", "b">>, artist |-> <<"c">>,
                   release_date |-> 2021]
      [] OTHER -> [uri |-> 4, name |-> <<"b">>, artist |-> <<"D">>,
                   release_date |-> 0]

Tracks == {Track(n) : n \in 1..4}

IsPunctuation(ch) == ch \in {"!"}

StripPunctuation(text) == SelectSeq(text, LAMBDA ch : ~IsPunctuation(ch))

\* normalize(Track): (lowercased, punctuation-stripped title, lowercased
\* primary artist).
normalize(t) ==
    [title |-> StripPunctuation(toLowerCase(t.name)),
     artist |-> toLowerCase(t.artist)]

SameSong(a, b) == normalize(a) = normalize(b)

Rank(ch) ==
    CASE ch = "!" -> 0 [] ch = "a" -> 1 [] ch = "b" -> 2 [] ch = "c" -> 3
      [] OTHER -> 4

Sign(n) == IF n < 0 THEN 0 - 1 ELSE IF n > 0 THEN 1 ELSE 0

\* Case-insensitive ordering of two texts: -1, 0 or 1.
RECURSIVE TextCompare(_, _)
TextCompare(a, b) ==
    IF a = <<>> /\ b = <<>> THEN 0
    ELSE IF a = <<>> THEN 0 - 1
    ELSE IF b = <<>> THEN 1
    ELSE LET c == Sign(Rank(toLowerCase(a)[1]) - Rank(toLowerCase(b)[1]))
         IN IF c # 0 THEN c ELSE TextCompare(Tail(a), Tail(b))

\* Variant: the direction of a rule is ignored.
compare_IgnoresDirection(a, b, rule) ==
    IF rule.criteria = "Release Date"
    THEN IF a.release_date = 0 /\ b.release_date = 0 THEN 0
         ELSE IF a.release_date = 0 THEN 1
         ELSE IF b.release_date = 0 THEN 0 - 1
         ELSE Sign(a.release_date - b.release_date)
    ELSE IF rule.criteria = "Artist"
         THEN TextCompare(a.artist, b.artist)
         ELSE TextCompare(a.name, b.name)

\* compare(Track, Track, criterion) under one rule: an unknown release date
\* orders last whatever the direction.
compare(a, b, rule) ==
    IF rule.criteria = "Release Date"
    THEN IF a.release_date = 0 /\ b.release_date = 0 THEN 0
         ELSE IF a.release_date = 0 THEN 1
         ELSE IF b.release_date = 0 THEN 0 - 1
         ELSE LET c == Sign(a.release_date - b.release_date)
              IN IF rule.descending THEN 0 - c ELSE c
    ELSE LET c == IF rule.criteria = "Artist"
                  THEN TextCompare(a.artist, b.artist)
                  ELSE TextCompare(a.name, b.name)
         IN IF rule.descending THEN 0 - c ELSE c

\* The composite comparator: rule[0], then the later rules as tie-breaks.
RECURSIVE compareAll(_, _, _)
compareAll(a, b, rules) ==
    IF rules = <<>> THEN 0
    ELSE LET c == compare(a, b, Head(rules))
         IN IF c # 0 THEN c ELSE compareAll(a, b, Tail(rules))

\* ---- Sort stage
\* Variant: a track is inserted in front of the tracks it ties with.
InsertStable_BeforeTies(sorted, x, rules) ==
    LET le == {i \in DOMAIN sorted : compareAll(sorted[i], x, rules) < 0}
        k == IF le = {} THEN 0 ELSE CHOOSE i \in le : \A j \in le : j <= i
    IN SubSeq(sorted, 1, k) \o <<x>> \o SubSeq(sorted, k + 1, Len(sorted))

\* One step of a stable insertion: x goes behind the last track that does
\* not order after it.
InsertStable(sorted, x, rules) ==
    LET le == {i \in DOMAIN sorted : compareAll(sorted[i], x, rules) <= 0}
        k == IF le = {} THEN 0 ELSE CHOOSE i \in le : \A j \in le : j <= i
    IN SubSeq(sorted, 1, k) \o <<x>> \o SubSeq(sorted, k + 1, Len(sorted))

RECURSIVE SortInto(_, _, _)
SortInto(sorted, rest, rules) ==
    IF rest = <<>> THEN sorted
    ELSE SortInto(InsertStable(sorted, Head(rest), rules), Tail(rest), rules)

\* sort(tracks, rules): pass-through for an empty rule list.
sort(tracks, rules) ==
    IF rules = <<>> THEN tracks ELSE SortInto(<<>>, tracks, rules)

\* ---- Dedup stage
DUPE_OPTIONS ==
    {"Keep Oldest (Release Date)", "Keep Newest (Release Date)",
     "Keep Oldest (Playlist Order)", "Keep Newest (Playlist Order)"}

\* The lower, the better a member of a group is under the preference; a
\* track without release date is never preferred by date.
PreferenceRank(tracks, i, pref) ==
    CASE pref = "Keep Oldest (Release Date)" ->
             IF tracks[i].release_date = 0 THEN 9999 ELSE tracks[i].release_date
      [] pref = "Keep Newest (Release Date)" -> 0 - tracks[i].release_date
      [] pref = "Keep Oldest (Playlist Order)" -> i
      [] OTHER -> 0 - i

GroupOf(tracks, i) == {j \in DOMAIN tracks : SameSong(tracks[j], tracks[i])}

\* The surviving member of i's group; among equally preferred members the
\* first in order.
Survivor(tracks, i, pref) ==
    CHOOSE s \in GroupOf(tracks, i) :
        \A j \in GroupOf(tracks, i) :
            \/ PreferenceRank(tracks, s, pref) < PreferenceRank(tracks, j, pref)
            \/ /\ PreferenceRank(tracks, s, pref) = PreferenceRank(tracks, j, pref)
               /\ s <= j

\* The tracks at the positions of keep, in their order.
RECURSIVE PickFrom(_, _, _)
PickFrom(tracks, keep, i) ==
    IF i > Len(tracks) THEN <<>>
    ELSE (IF i \in keep THEN <<tracks[i]>> ELSE <<>>) \o PickFrom(tracks, keep, i + 1)

\* Variant: one pass removes only the least preferred member of a group.
dedupe_OnePerPass(tracks, pref) ==
    LET worst(i) ==
            /\ Cardinality(GroupOf(tracks, i)) > 1
            /\ \A j \in GroupOf(tracks, i) :
                  \/ PreferenceRank(tracks, j, pref) < PreferenceRank(tracks, i, pref)
                  \/ /\ PreferenceRank(tracks, j, pref) = PreferenceRank(tracks, i, pref)
                     /\ j <= i
    IN PickFrom(tracks, {i \in DOMAIN tracks : ~worst(i)}, 1)

\* dedupe: every group keeps its survivor, the survivors keep their order.
dedupe(tracks, pref) ==
    PickFrom(tracks, {i \in DOMAIN tracks : Survivor(tracks, i, pref) = i}, 1)

\* ---- Dynamic Merge Engine, steps 1-3 and 6
TakeFirst(tracks, n) ==
    IF n = 0 \/ n >= Len(tracks) THEN tracks ELSE SubSeq(tracks, 1, n)

RECURSIVE Concatenate(_, _)
Concatenate(lists, n) ==
    IF lists = <<>> THEN <<>>
    ELSE TakeFirst(Head(lists), n) \o Concatenate(Tail(lists), n)

\* Variant: a pipeline track is held against the target's tracks only.
MergeInto_TargetOnly(acc, output) ==
    SelectSeq(output, LAMBDA t : \A i \in DOMAIN acc : ~SameSong(acc[i], t))

\* merge: a pipeline track is appended unless its song is already in the
\* list.
RECURSIVE MergeInto(_, _)
MergeInto(acc, output) ==
    IF output = <<>> THEN <<>>
    ELSE IF \E i \in DOMAIN acc : SameSong(acc[i], Head(output))
         THEN MergeInto(acc, Tail(output))
         ELSE <<Head(output)>> \o MergeInto(Append(acc, Head(output)), Tail(output))

reconcile(target, output, update_mode) ==
    CASE update_mode = "replace" -> output
      [] update_mode = "merge" -> target \o MergeInto(target, output)
      [] OTHER -> target \o output

\* ---- inputs
RECURSIVE ListsUpTo(_)
ListsUpTo(n) ==
    IF n = 0 THEN {<<>>}
    ELSE ListsUpTo(n - 1) \cup
         {Append(l, t) : l \in {m \in ListsUpTo(n - 1) : Len(m) = n - 1}, t \in Tracks}

RuleSets ==
    {<<>>,
     <<[criteria |-> "Release Date", descending |-> TRUE]>>,
     <<[criteria |-> "Artist", descending |-> FALSE],
       [criteria |-> "Release Date", descending |-> FALSE]>>}

Configs ==
    [update_mode : {"replace", "merge", "append"},
     sample_per_source : {0, 1, 2},
     apply_sort : {TRUE},
     sort_rules : RuleSets,
     apply_dupes : {TRUE},
     dupe_preference : DUPE_OPTIONS]
    \cup
    [update_mode : {"replace", "merge", "append"},
     sample_per_source : {0, 1, 2},
     apply_sort : {TRUE},
     sort_rules : RuleSets,
     apply_dupes : {FALSE},
     dupe_preference : {"Keep Oldest (Release Date)"}]

engineUnchanged ==
    UNCHANGED <<scanVars, historyVars, preApply, runningId, runs, updatingId,
                updatePc, runHistory, dropped, alerted, app, selectorVars,
                cronVars, formVars, compareVars>>

\* ---- a run of the engine for one config
\* Steps 1-3: each source's first sample_per_source tracks, concatenated in
\* declaration order.
ResolveSources ==
    /\ enginePc = "resolve"
    /\ workList' = Concatenate(sourceLists, config.sample_per_source)
    /\ enginePc' = "sort"
    /\ UNCHANGED <<config, sourceLists, targetList, finalList, duplicatesRemoved>>
    /\ engineUnchanged

\* Step 5, Sort.
SortStage ==
    /\ enginePc = "sort"
    /\ workList' = IF config.apply_sort THEN sort(workList, config.sort_rules)
                                        ELSE workList
    /\ enginePc' = "dedup"
    /\ UNCHANGED <<config, sourceLists, targetList, finalList, duplicatesRemoved>>
    /\ engineUnchanged

\* Step 5, Dedup: one DuplicateRemoval per track that does not survive.
DedupStage ==
    /\ enginePc = "dedup"
    /\ workList' = IF config.apply_dupes
                   THEN dedupe(workList, config.dupe_preference) ELSE workList
    /\ duplicatesRemoved' = Len(workList) - Len(workList')
    /\ enginePc' = "reconcile"
    /\ UNCHANGED <<config, sourceLists, targetList, finalList>>
    /\ engineUnchanged

\* Step 6: the target's current tracks are read and the final list is
\* computed under update_mode.
Reconcile(target) ==
    /\ enginePc = "reconcile"
    /\ targetList' = target
    /\ finalList' = reconcile(target, workList, config.update_mode)
    /\ enginePc' = "done"
    /\ UNCHANGED <<config, sourceLists, workList, duplicatesRemoved>>
    /\ engineUnchanged

\* A manual trigger or the scheduler hands a config to the engine; step 1
\* resolves its two sources.
RunConfig(cfg, sources) ==
    /\ enginePc = "idle"
    /\ config' = cfg
    /\ sourceLists' = sources
    /\ enginePc' = "resolve"
    /\ UNCHANGED <<workList, targetList, finalList, duplicatesRemoved>>
    /\ engineUnchanged

EngineInit ==
    /\ RunInit
    /\ app = "server"

EngineNext ==
    \/ /\ enginePc = "idle"
       /\ \E cfg \in Configs, a \in ListsUpTo(MaxSourceLen),
             b \in ListsUpTo(MaxSourceLen - 1) : RunConfig(cfg, <<a, b>>)
    \/ ResolveSources
    \/ SortStage
    \/ DedupStage
    \/ /\ enginePc = "reconcile"
       /\ \E target \in ListsUpTo(MaxTargetLen) : Reconcile(target)

SpecEngine == EngineInit /\ [][EngineNext]_vars

\* ============================================ schedule editor (cron form)
\* ---- DesktopSchedulesModal.tsx 19-20, 74-272; Schedules.tsx 6-168 holds
\* the same code under the names showModal and closeModal.
\* A text is the sequence of its characters.
DigitChars == <<"0", "1", "2", "3", "4", "5", "6", "7", "8", "9">>

IsDigit(c) == \E n \in DOMAIN DigitChars : DigitChars[n] = c

DigitValue(c) == (CHOOSE n \in DOMAIN DigitChars : DigitChars[n] = c) - 1

\* The values that are no number.
NaN == 0 - 1
Undefined == 0 - 2

\* parseInt of a text without leading blanks or sign: the number written by
\* its leading digits, NaN when it starts with none.
RECURSIVE LeadingNumber(_, _, _)
LeadingNumber(text, i, acc) ==
    IF i > Len(text) \/ ~IsDigit(text[i]) THEN acc
    ELSE LeadingNumber(text, i + 1, acc * 10 + DigitValue(text[i]))

parseInt(text) ==
    IF text = <<>> \/ ~IsDigit(text[1]) THEN NaN ELSE LeadingNumber(text, 1, 0)

\* Number.prototype.toString, and what a template prints for undefined.
RECURSIVE toString(_)
toString(n) ==
    IF n = NaN THEN <<"N", "a", "N">>
    ELSE IF n = Undefined THEN <<"u", "n", "d", "e", "f", "i", "n", "e", "d">>
    ELSE IF n < 10 THEN <<DigitChars[n + 1]>>
    ELSE toString(n \div 10) \o <<DigitChars[(n % 10) + 1]>>

\* 20: pad = n.toString().padStart(2, '0')
RECURSIVE padStart(_, _, _)
padStart(text, length, fill) ==
    IF Len(text) >= length THEN text ELSE padStart(<<fill>> \o text, length, fill)

pad(n) == padStart(toString(n), 2, "0")

\* String.prototype.split with a separator of one character.
RECURSIVE split(_, _)
split(text, sep) ==
    IF \A i \in DOMAIN text : text[i] # sep THEN <<text>>
    ELSE LET at == CHOOSE i \in DOMAIN text :
                       text[i] = sep /\ \A j \in 1..(i - 1) : text[j] # sep
         IN <<SubSeq(text, 1, at - 1)>>
            \o split(SubSeq(text, at + 1, Len(text)), sep)

startsWith(text, prefix) ==
    Len(text) >= Len(prefix) /\ SubSeq(text, 1, Len(prefix)) = prefix

\* The parts of a template `${a} ${b} ...`, blanks between them.
RECURSIVE Template(_)
Template(parts) ==
    IF Len(parts) = 1 THEN parts[1]
    ELSE parts[1] \o <<" ">> \o Template(Tail(parts))

Star == <<"*">>
EveryN == <<"*", "/">>
Midnight == <<"0", "0", ":", "0", "0">>
DefaultCron == Template(<<<<"0">>, <<"0">>, Star, Star, Star>>)

\* 93-97: the simple form, as one value.
SimpleState ==
    [freq |-> simpleFreq, interval |-> simpleInterval, time |-> simpleTime,
     dow |-> simpleDow, dom |-> simpleDom]

InitialSimple ==
    [freq |-> "daily", interval |-> 6, time |-> Midnight,
     dow |-> <<"1">>, dom |-> <<"1">>]

\* 152-172: the branch of parseCronToSimple that the five parts select.
PatternOf(cron) ==
    LET parts == split(cron, " ")
        min == parts[1]
        hour == parts[2]
        dom == parts[3]
        mon == parts[4]
        dow == parts[5]
    IN IF Len(parts) < 5 THEN "short"
       ELSE IF min = <<"0">> /\ hour = Star /\ dom = Star /\ mon = Star /\ dow = Star
            THEN "hourly"
       ELSE IF min = <<"0">> /\ startsWith(hour, EveryN) /\ dom = Star /\ mon = Star
               /\ dow = Star
            THEN "interval"
       ELSE IF dom = Star /\ mon = Star /\ dow = Star THEN "daily"
       ELSE IF dom = Star /\ mon = Star /\ dow # Star THEN "weekly"
       ELSE IF dom # Star /\ mon = Star /\ dow = Star THEN "monthly"
       ELSE "complex"

\* Variant: an expression of no pattern leaves the simple form as it is.
parseCronToSimple_KeepsOnComplex(cron, current) ==
    LET parts == split(cron, " ")
        time == pad(parseInt(parts[2])) \o <<":">> \o pad(parseInt(parts[1]))
        reset == [InitialSimple EXCEPT !.freq = current.freq]
        branch == PatternOf(cron)
    IN CASE branch \in {"short", "complex"} -> current
         [] branch = "hourly" -> [reset EXCEPT !.freq = "hourly"]
         [] branch = "interval" ->
              LET interval == parseInt(SubSeq(parts[2], 3, Len(parts[2])))
              IN [reset EXCEPT !.freq = "interval",
                               !.interval = IF interval = NaN THEN 6 ELSE interval]
         [] branch = "daily" -> [reset EXCEPT !.freq = "daily", !.time = time]
         [] branch = "weekly" ->
              [reset EXCEPT !.freq = "weekly", !.dow = parts[5], !.time = time]
         [] OTHER ->
              [reset EXCEPT !.freq = "monthly", !.dom = parts[3], !.time = time]

\* 141-173 parseCronToSimple: the simple form after its setters, given the
\* simple form before.  An expression of fewer than five parts changes
\* nothing (143); otherwise interval, time, day of week and day of month are
\* reset (147-150) and the branch sets its own.
parseCronToSimple(cron, current) ==
    LET parts == split(cron, " ")
        time == pad(parseInt(parts[2])) \o <<":">> \o pad(parseInt(parts[1]))
        reset == [InitialSimple EXCEPT !.freq = current.freq]
        branch == PatternOf(cron)
    IN CASE branch = "short" -> current
         [] branch = "hourly" -> [reset EXCEPT !.freq = "hourly"]
         [] branch = "interval" ->
              LET interval == parseInt(SubSeq(parts[2], 3, Len(parts[2])))
              IN [reset EXCEPT !.freq = "interval",
                               !.interval = IF interval = NaN THEN 6 ELSE interval]
         [] branch = "daily" -> [reset EXCEPT !.freq = "daily", !.time = time]
         [] branch = "weekly" ->
              [reset EXCEPT !.freq = "weekly", !.dow = parts[5], !.time = time]
         [] branch = "monthly" ->
              [reset EXCEPT !.freq = "monthly", !.dom = parts[3], !.time = time]
         [] OTHER -> [reset EXCEPT !.freq = "daily", !.time = Midnight]

\* 177: parseInt(n) || 0
OrZero(n) == IF n = NaN THEN 0 ELSE n

\* 175-195 updateCronFromSimple: the expression it hands to setFormData.
CronOfSimple(simple) ==
    LET parts == split(simple.time, ":")
        h == OrZero(parseInt(parts[1]))
        m == IF Len(parts) < 2 THEN Undefined ELSE OrZero(parseInt(parts[2]))
    IN CASE simple.freq = "hourly" -> Template(<<<<"0">>, Star, Star, Star, Star>>)
         [] simple.freq = "interval" ->
              Template(<<<<"0">>, EveryN \o toString(simple.interval), Star, Star, Star>>)
         [] simple.freq = "daily" ->
              Template(<<toString(m), toString(h), Star, Star, Star>>)
         [] simple.freq = "weekly" ->
              Template(<<toString(m), toString(h), Star, Star, simple.dow>>)
         [] OTHER ->
              Template(<<toString(m), toString(h), simple.dom, Star, Star>>)

\* 199-203: the effect runs after a render in which one of the five simple
\* values differs from the render before; it overwrites the form's
\* expression when the editor is shown in that render.
updateCronFromSimple(shown, simple, form) ==
    IF shown /\ simple # SimpleState
    THEN [form EXCEPT !.cron_expression = CronOfSimple(simple)]
    ELSE form

\* What get_desktop_schedules, GET /api/schedules can return: one expression
\* of each form the composer writes, and expressions written by hand.
StoredCrons ==
    {Template(<<<<"0">>, Star, Star, Star, Star>>),
     Template(<<<<"0">>, <<"*", "/", "6">>, Star, Star, Star>>),
     Template(<<<<"3", "0">>, <<"9">>, Star, Star, Star>>),
     Template(<<<<"3", "0">>, <<"9">>, Star, Star, <<"5">>>>),
     Template(<<<<"3", "0">>, <<"9">>, <<"1", "5">>, Star, Star>>),
     Template(<<<<"3", "0">>, Star, Star, Star, Star>>),
     Template(<<<<"0", "5">>, <<"0", "9">>, Star, Star, Star>>),
     Template(<<<<"*", "/", "5">>, Star, Star, Star, Star>>),
     Template(<<<<"0">>, <<"0">>, <<"1">>, <<"1">>, Star>>),
     Template(<<<<"0">>, <<"9">>, <<"1">>, Star, <<"1">>>>),
     Template(<<<<"0">>, <<"0">>, Star, Star>>)}

\* What the controls of the editor can hand to their onChange.
FreqOptions == {"hourly", "interval", "daily", "weekly", "monthly"}
IntervalInputs == {<<>>, <<"9", "9">>}
TimeInputs == {<<"0", "9", ":", "3", "0">>}
DowOptions == {<<"5">>}
DomOptions == {<<"1", "5">>}

Min(a, b) == IF a < b THEN a ELSE b
Max(a, b) == IF a > b THEN a ELSE b

NoSave == [id |-> 0 - 1, cron_expression |-> <<>>, untouched |-> FALSE]

cronUnchanged ==
    UNCHANGED <<scanVars, historyVars, preApply, runningId, runs, updatingId,
                updatePc, runHistory, dropped, alerted, app, selectorVars,
                engineVars, formVars, compareVars>>

setSimple(simple) ==
    /\ simpleFreq' = simple.freq
    /\ simpleInterval' = simple.interval
    /\ simpleTime' = simple.time
    /\ simpleDow' = simple.dow
    /\ simpleDom' = simple.dom

\* 101-103, 127-138 loadData: the stored schedules arrive.
loadData(stored) ==
    /\ schedulesPc = "unmounted"
    /\ schedulesPc' = "loaded"
    /\ schedules' = stored
    /\ UNCHANGED <<showEditModal, editingId, formData, simpleFreq, simpleInterval,
                   simpleTime, simpleDow, simpleDom, saving, untouched, error>>
    /\ cronUnchanged

\* 238-253 openNewModal, then the effect of 199-203.
openNewModal ==
    /\ schedulesPc = "loaded"
    /\ ~showEditModal
    /\ Len(schedules) < MaxSchedules
    /\ LET simple == parseCronToSimple(DefaultCron, SimpleState)
       IN /\ editingId' = 0
          /\ formData' = updateCronFromSimple(TRUE, simple,
                                              [cron_expression |-> DefaultCron])
          /\ setSimple(simple)
    /\ showEditModal' = TRUE
    /\ untouched' = TRUE
    /\ error' = FALSE
    /\ UNCHANGED <<schedules, schedulesPc, saving>>
    /\ cronUnchanged

\* 255-265 openEditModal, then the effect of 199-203.
openEditModal(s) ==
    /\ schedulesPc = "loaded"
    /\ ~showEditModal
    /\ s \in DOMAIN schedules
    /\ LET simple == parseCronToSimple(schedules[s], SimpleState)
       IN /\ editingId' = s
          /\ formData' = updateCronFromSimple(TRUE, simple,
                                              [cron_expression |-> schedules[s]])
          /\ setSimple(simple)
    /\ showEditModal' = TRUE
    /\ untouched' = TRUE
    /\ UNCHANGED <<schedules, schedulesPc, saving, error>>
    /\ cronUnchanged

\* A frequency control of the editor changes one simple value (398-464),
\* then the effect of 199-203.
ControlChanges(simple) ==
    /\ showEditModal
    /\ formData' = updateCronFromSimple(TRUE, simple, formData)
    /\ setSimple(simple)
    /\ untouched' = FALSE
    /\ UNCHANGED <<schedules, schedulesPc, showEditModal, editingId, saving, error>>
    /\ cronUnchanged

\* 398-399
setSimpleFreq(val) == ControlChanges([SimpleState EXCEPT !.freq = val])

\* 409-416: Math.min(23, Math.max(1, parseInt(e.target.value) || 1))
setSimpleInterval(value) ==
    /\ simpleFreq = "interval"
    /\ LET n == IF OrZero(parseInt(value)) = 0 THEN 1 ELSE parseInt(value)
       IN ControlChanges([SimpleState EXCEPT !.interval = Min(23, Max(1, n))])

\* 423-428
setSimpleDow(val) ==
    /\ simpleFreq = "weekly"
    /\ ControlChanges([SimpleState EXCEPT !.dow = val])

\* 442-447
setSimpleDom(val) ==
    /\ simpleFreq = "monthly"
    /\ ControlChanges([SimpleState EXCEPT !.dom = val])

\* 457-464
setSimpleTime(value) ==
    /\ simpleFreq \in {"daily", "weekly", "monthly"}
    /\ ControlChanges([SimpleState EXCEPT !.time = value])

\* 205-214 handleSave up to its await: the schedule to save takes the
\* form's expression.
handleSave ==
    /\ showEditModal
    /\ saving = NoSave
    /\ saving' = [id |-> editingId, cron_expression |-> formData.cron_expression,
                  untouched |-> untouched]
    /\ UNCHANGED <<schedules, schedulesPc, showEditModal, editingId, formData,
                   simpleFreq, simpleInterval, simpleTime, simpleDow, simpleDom,
                   untouched, error>>
    /\ cronUnchanged

\* 216-222: the save returned; the list takes the saved schedule and the
\* editor closes.
SaveReturns ==
    /\ saving # NoSave
    /\ schedules' = IF saving.id # 0
                    THEN [schedules EXCEPT ![saving.id] = saving.cron_expression]
                    ELSE Append(schedules, saving.cron_expression)
    /\ showEditModal' = FALSE
    /\ saving' = NoSave
    /\ error' = FALSE
    /\ UNCHANGED <<schedulesPc, editingId, formData, simpleFreq, simpleInterval,
                   simpleTime, simpleDow, simpleDom, untouched>>
    /\ cronUnchanged

\* 223-225: the save failed; the editor stays open and the error is shown.
SaveFails ==
    /\ saving # NoSave
    /\ saving' = NoSave
    /\ error' = TRUE
    /\ UNCHANGED <<schedules, schedulesPc, showEditModal, editingId, formData,
                   simpleFreq, simpleInterval, simpleTime, simpleDow, simpleDom,
                   untouched>>
    /\ cronUnchanged

\* 267-272 closeEditModal (Cancel)
closeEditModal ==
    /\ showEditModal
    /\ showEditModal' = FALSE
    /\ UNCHANGED <<schedules, schedulesPc, editingId, formData, simpleFreq,
                   simpleInterval, simpleTime, simpleDow, simpleDom, saving,
                   untouched, error>>
    /\ cronUnchanged

CronInit == RunInit /\ app = "desktop"

CronNext ==
    \/ /\ schedulesPc = "unmounted"
       /\ \E stored \in {<<>>} \cup {<<cron>> : cron \in StoredCrons} : loadData(stored)
    \/ openNewModal
    \/ \E s \in 1..MaxSchedules : openEditModal(s)
    \/ \E val \in FreqOptions : setSimpleFreq(val)
    \/ \E value \in IntervalInputs : setSimpleInterval(value)
    \/ \E val \in DowOptions : setSimpleDow(val)
    \/ \E val \in DomOptions : setSimpleDom(val)
    \/ \E value \in TimeInputs : setSimpleTime(value)
    \/ handleSave
    \/ SaveReturns
    \/ SaveFails
    \/ closeEditModal

SpecCron == CronInit /\ [][CronNext]_vars

\* ================================================ dynamic config forms
\* ---- DynamicPlaylistModal (ExportModal.tsx 182-296, App.tsx 110-120)
\* ---- ConfigEditor (unnamed/part_001)
\* What the user types as a name and into the sample field (type="number":
\* the value is empty or a number as text).
Names == {<<>>, <<" ">>, <<"m">>}
SampleInputs == {<<>>, <<"0">>, <<"5">>, <<"-", "3">>}
SourceLists == {<<>>, <<1>>, <<2>>, <<1, 2>>}

\* null, and a number, in a field that holds either.
Null == <<>>
Some(n) == <<n>>

\* String.prototype.trim
RECURSIVE trimStart(_)
trimStart(text) ==
    IF text # <<>> /\ Head(text) = " " THEN trimStart(Tail(text)) ELSE text

RECURSIVE trimEnd(_)
trimEnd(text) ==
    IF text # <<>> /\ text[Len(text)] = " "
    THEN trimEnd(SubSeq(text, 1, Len(text) - 1)) ELSE text

trim(text) == trimEnd(trimStart(text))

\* parseInt of a text that may start with a minus sign.
parseSigned(text) ==
    IF text # <<>> /\ text[1] = "-"
    THEN IF parseInt(Tail(text)) = NaN THEN NaN ELSE 0 - parseInt(Tail(text))
    ELSE parseInt(text)

\* ExportModal.tsx 283 and part_001 338: value ? parseInt(value) : null
SampleOf(text) ==
    IF text = <<>> THEN Null ELSE Some(parseSigned(text))

formsUnchanged ==
    UNCHANGED <<storeVars, reviewQueue, activeReview, loopVars, modalVars,
                historyVars, preApply, runningId, runs, updatingId, updatePc,
                runHistory, dropped, alerted, app, selectorVars, engineVars,
                cronVars, compareVars, applyCalls, backendVars, runCount,
                scanLog, errorLog, rejectedLive>>

\* App.tsx 347-350 (onAdd) and ExportModal.tsx 185-212: the modal opens on
\* a new config.
openDynamicEdit ==
    /\ app = "desktop"
    /\ activeModal = "none"
    /\ activeModal' = "dynamic_edit"
    /\ dynamicForm' = [name |-> <<>>, targetPlaylistId |-> 0,
                       selectedSourceIds |-> <<>>, includeLikedSongs |-> FALSE,
                       samplePerSource |-> <<>>, applySort |-> sortEnabled]
    /\ formError' = FALSE
    /\ UNCHANGED <<editorConfig, request>>
    /\ formsUnchanged

\* A control of the modal changes one piece of its state.
setDynamicForm(form) ==
    /\ app = "desktop"
    /\ dynamicForm # NoForm
    /\ form # dynamicForm
    /\ dynamicForm' = form
    /\ UNCHANGED <<activeModal, editorConfig, formError, request>>
    /\ formsUnchanged

\* 324
setName(text) == setDynamicForm([dynamicForm EXCEPT !.name = text])

\* 352
setTargetPlaylistId(id) ==
    setDynamicForm([dynamicForm EXCEPT !.targetPlaylistId = id])

\* 235-239
toggleSource(id) ==
    setDynamicForm([dynamicForm EXCEPT !.selectedSourceIds =
        IF id \in Range(@) THEN SelectSeq(@, LAMBDA x : x # id)
        ELSE Append(@, id)])

setIncludeLikedSongs(checked) ==
    setDynamicForm([dynamicForm EXCEPT !.includeLikedSongs = checked])

\* 535
setSamplePerSource(text) ==
    setDynamicForm([dynamicForm EXCEPT !.samplePerSource = text])

\* 252-263: the three checks of handleSubmit.
SubmitRefused(form) ==
    \/ trim(form.name) = <<>>
    \/ form.targetPlaylistId = 0
    \/ (Len(form.selectedSourceIds) = 0 /\ ~form.includeLikedSongs)

\* 266-293: newConfig.  The fields carry the server's names; sources lists
\* the playlist sources, the liked songs are the flag.
NewConfig(form) ==
    [via |-> "save_dynamic_config",
     name |-> trim(form.name),
     target_playlist_id |-> form.targetPlaylistId,
     sources |-> form.selectedSourceIds,
     include_liked_songs |-> form.includeLikedSongs,
     sample_per_source |-> SampleOf(form.samplePerSource),
     apply_sort |-> form.applySort,
     sort_rules |-> sortRules]

\* handleSubmit, and handleSaveDynamicConfig up to its await.  One save is
\* pending at a time.
handleSubmit ==
    /\ app = "desktop"
    /\ dynamicForm # NoForm
    /\ request = NoRequest
    /\ IF SubmitRefused(dynamicForm)
       THEN /\ formError' = TRUE
            /\ UNCHANGED request
       ELSE /\ formError' = FALSE
            /\ request' = NewConfig(dynamicForm)
    /\ UNCHANGED <<activeModal, dynamicForm, editorConfig>>
    /\ formsUnchanged

\* App.tsx 113-115 and 116-119: save_dynamic_config resolved (the modal
\* closes) or was rejected (it stays).
SaveDynamicConfigSettles(ok) ==
    /\ app = "desktop"
    /\ request # NoRequest
    /\ request' = NoRequest
    /\ IF ok
       THEN /\ activeModal' = "none"
            /\ dynamicForm' = NoForm
            /\ formError' = FALSE
       ELSE UNCHANGED <<activeModal, dynamicForm, formError>>
    /\ UNCHANGED editorConfig
    /\ formsUnchanged

\* App.tsx 445-448, the modal's Cancel and X.
cancelDynamicEdit ==
    /\ app = "desktop"
    /\ dynamicForm # NoForm
    /\ activeModal' = "none"
    /\ dynamicForm' = NoForm
    /\ formError' = FALSE
    /\ UNCHANGED <<editorConfig, request>>
    /\ formsUnchanged

\* part_001 10-30
EMPTY_CONFIG ==
    [name |-> <<>>, target_playlist_id |-> 0, sources |-> <<>>,
     include_liked_songs |-> FALSE, sample_per_source |-> Null,
     processing |-> [apply_sort |-> FALSE,
                     sort_rules |-> <<[criteria |-> "Release Date",
                                       descending |-> TRUE]>>]]

\* part_001 32-38: the page /configs/new.
ConfigEditorMount ==
    /\ app = "server"
    /\ editorConfig = NoForm
    /\ request = NoRequest
    /\ editorConfig' = EMPTY_CONFIG
    /\ UNCHANGED <<activeModal, dynamicForm, formError, request>>
    /\ formsUnchanged

setConfig(c) ==
    /\ app = "server"
    /\ editorConfig # NoForm
    /\ c # editorConfig
    /\ editorConfig' = c
    /\ UNCHANGED <<activeModal, dynamicForm, formError, request>>
    /\ formsUnchanged

\* part_001 105
setConfigName(text) == setConfig([editorConfig EXCEPT !.name = text])

\* part_001 114
setConfigTarget(id) ==
    setConfig([editorConfig EXCEPT !.target_playlist_id = id])

\* part_001 124 (Clear) and 129
setConfigSources(ids) == setConfig([editorConfig EXCEPT !.sources = ids])

\* part_001 137
setConfigLiked(checked) ==
    setConfig([editorConfig EXCEPT !.include_liked_songs = checked])

\* part_001 338
setConfigSample(text) ==
    setConfig([editorConfig EXCEPT !.sample_per_source = SampleOf(text)])

\* part_001 83-85, the Sort card (152)
toggleProcessing ==
    setConfig([editorConfig EXCEPT !.processing.apply_sort = ~@])

\* The Sort Configuration panel (part_001 184-246) is rendered.
PanelShown == editorConfig # NoForm /\ editorConfig.processing.apply_sort

\* part_001 189-196
ruleCriteria(idx, criteria) ==
    /\ PanelShown
    /\ idx \in DOMAIN editorConfig.processing.sort_rules
    /\ setConfig([editorConfig EXCEPT
                     !.processing.sort_rules[idx].criteria = criteria])

\* part_001 203-210
ruleDirection(idx, descending) ==
    /\ PanelShown
    /\ idx \in DOMAIN editorConfig.processing.sort_rules
    /\ setConfig([editorConfig EXCEPT
                     !.processing.sort_rules[idx].descending = descending])

\* part_001 224-232: filter((_, i) => i !== idx)
ruleRemove(idx) ==
    /\ PanelShown
    /\ idx \in DOMAIN editorConfig.processing.sort_rules
    /\ setConfig([editorConfig EXCEPT !.processing.sort_rules =
          [i \in 1..(Len(@) - 1) |-> IF i < idx THEN @[i] ELSE @[i + 1]]])

\* part_001 235-244
ruleAdd ==
    /\ PanelShown
    /\ Len(editorConfig.processing.sort_rules) < MaxEditorRules
    /\ setConfig([editorConfig EXCEPT !.processing.sort_rules =
          Append(@, [criteria |-> "Artist", descending |-> FALSE])])

\* part_001 54-64: handleSave up to its await; the button is disabled
\* while saving.  Without a name the alert is all that happens.
handleConfigSave ==
    /\ app = "server"
    /\ editorConfig # NoForm
    /\ request = NoRequest
    /\ editorConfig.name # <<>>
    /\ request' = [via |-> "POST /api/configs",
                   name |-> editorConfig.name,
                   target_playlist_id |-> editorConfig.target_playlist_id,
                   sources |-> editorConfig.sources,
                   include_liked_songs |-> editorConfig.include_liked_songs,
                   sample_per_source |-> editorConfig.sample_per_source,
                   apply_sort |-> editorConfig.processing.apply_sort,
                   sort_rules |-> editorConfig.processing.sort_rules]
    /\ UNCHANGED <<activeModal, dynamicForm, editorConfig, formError>>
    /\ formsUnchanged

\* part_001 66-78: the response; navigate('/') leaves the page.
ConfigSaveSettles(ok) ==
    /\ app = "server"
    /\ request # NoRequest
    /\ request' = NoRequest
    /\ editorConfig' = IF ok THEN NoForm ELSE editorConfig
    /\ UNCHANGED <<activeModal, dynamicForm, formError>>
    /\ formsUnchanged

\* part_001 94 and 346: the X and Cancel.
ConfigEditorLeave ==
    /\ app = "server"
    /\ editorConfig # NoForm
    /\ request = NoRequest
    /\ editorConfig' = NoForm
    /\ UNCHANGED <<activeModal, dynamicForm, formError, request>>
    /\ formsUnchanged

FormsNext ==
    \/ openDynamicEdit
    \/ \E text \in Names : setName(text)
    \/ \E id \in PlaylistIds : setTargetPlaylistId(id)
    \/ \E id \in PlaylistIds : toggleSource(id)
    \/ \E checked \in BOOLEAN : setIncludeLikedSongs(checked)
    \/ \E text \in SampleInputs : setSamplePerSource(text)
    \/ handleSubmit
    \/ \E ok \in BOOLEAN : SaveDynamicConfigSettles(ok)
    \/ cancelDynamicEdit
    \/ ConfigEditorMount
    \/ \E text \in Names : setConfigName(text)
    \/ \E id \in PlaylistIds : setConfigTarget(id)
    \/ \E ids \in SourceLists : setConfigSources(ids)
    \/ \E checked \in BOOLEAN : setConfigLiked(checked)
    \/ \E text \in SampleInputs : setConfigSample(text)
    \/ handleConfigSave
    \/ \E ok \in BOOLEAN : ConfigSaveSettles(ok)
    \/ ConfigEditorLeave

SpecForms == RunInit /\ [][FormsNext]_vars

\* ---- the rule editors: the settings section of the desktop application
\* and the Sort Configuration panel of ConfigEditor
RuleEditorsNext ==
    \/ (app = "desktop" /\ RulesNext)
    \/ ConfigEditorMount
    \/ toggleProcessing
    \/ \E idx \in 1..MaxEditorRules, criteria \in {"Artist", "Release Date"} :
          ruleCriteria(idx, criteria)
    \/ \E idx \in 1..MaxEditorRules, descending \in BOOLEAN :
          ruleDirection(idx, descending)
    \/ \E idx \in 1..MaxEditorRules : ruleRemove(idx)
    \/ ruleAdd
    \/ ConfigEditorLeave

SpecRules == RunInit /\ [][RuleEditorsNext]_vars

\* ============================================== ComparePlaylistsModal
\* ---- ComparePlaylistsModal.tsx 25-100, 199-262
\* What compare_playlists answers for the selected playlists "A", "B" and
\* "C": one track found in all three and one found in two.
ComparedResult ==
    [duplicates |-> << [track_id |-> 1, found_in_playlists |-> <<"A", "B", "C">>],
                       [track_id |-> 2, found_in_playlists |-> <<"A", "B">>] >>,
     playlists_compared |-> 3]

\* 219-221: removeStatus[track.track_id + pl]
StatusOf(trackId, playlistName) ==
    IF <<trackId, playlistName>> \in DOMAIN removeStatus
    THEN removeStatus[<<trackId, playlistName>>]
    ELSE "undefined"

\* prev => ({ ...prev, [trackId + playlistName]: status })
WithStatus(trackId, playlistName, status) ==
    [k \in DOMAIN removeStatus \cup {<<trackId, playlistName>>} |->
        IF k = <<trackId, playlistName>> THEN status ELSE removeStatus[k]]

compareUnchanged ==
    UNCHANGED <<scanVars, historyVars, preApply, runningId, runs, updatingId,
                updatePc, runHistory, dropped, alerted, app, selectorVars,
                engineVars, cronVars, formVars>>

\* 37-59: the comparison is run and its answer shown.
handleCompare ==
    /\ result = NoResult
    /\ result' = ComparedResult
    /\ removeStatus' = <<>>
    /\ UNCHANGED removeCalls
    /\ compareUnchanged

\* 228-237: the remove button of a playlist chip is rendered and enabled.
RemoveButtonEnabled(trackId, playlistName) ==
    /\ result # NoResult
    /\ \E i \in DOMAIN result.duplicates :
          /\ result.duplicates[i].track_id = trackId
          /\ playlistName \in Range(result.duplicates[i].found_in_playlists)
    /\ StatusOf(trackId, playlistName) \notin {"Removed", "Removing..."}

\* 83-96: setResult({ ...result, duplicates: ... }) with the result of the
\* render in which the button was clicked.
Removal(captured, trackId, playlistName) ==
    [captured EXCEPT !.duplicates =
        SelectSeq([i \in DOMAIN @ |->
                      IF @[i].track_id = trackId
                      THEN [@[i] EXCEPT !.found_in_playlists =
                              SelectSeq(@, LAMBDA pl : pl # playlistName)]
                      ELSE @[i]],
                  LAMBDA t : Len(t.found_in_playlists) >= 2)]

\* 66-79: handleRemoveFromPlaylist up to its await.  The call keeps the
\* result its closure was created with.
handleRemoveFromPlaylist(trackId, playlistName) ==
    /\ RemoveButtonEnabled(trackId, playlistName)
    /\ removeStatus' = WithStatus(trackId, playlistName, "Removing...")
    /\ removeCalls' = removeCalls \cup
          {[trackId |-> trackId, playlistName |-> playlistName,
            result |-> result]}
    /\ UNCHANGED result
    /\ compareUnchanged

\* 80-96: remove_track_from_playlist resolved.
RemoveReturns(call) ==
    /\ call \in removeCalls
    /\ removeCalls' = removeCalls \ {call}
    /\ removeStatus' = WithStatus(call.trackId, call.playlistName, "Removed")
    /\ result' = Removal(call.result, call.trackId, call.playlistName)
    /\ compareUnchanged

\* 97-99: remove_track_from_playlist was rejected.
RemoveFails(call) ==
    /\ call \in removeCalls
    /\ removeCalls' = removeCalls \ {call}
    /\ removeStatus' = WithStatus(call.trackId, call.playlistName, "Error")
    /\ UNCHANGED result
    /\ compareUnchanged

CompareInit ==
    /\ RunInit
    /\ app = "desktop"

CompareNext ==
    \/ handleCompare
    \/ \E trackId \in {1, 2}, playlistName \in {"A", "B", "C"} :
          handleRemoveFromPlaylist(trackId, playlistName)
    \/ \E call \in removeCalls : RemoveReturns(call)
    \/ \E call \in removeCalls : RemoveFails(call)

SpecCompare == CompareInit /\ [][CompareNext]_vars

\* ================================================= properties of SpecScan
\* apply_changes is invoked by the loop (the automatic sort) or by
\* handleApplyReview.
IssuesAutoApply == loopPc # "applying" /\ loopPc' = "applying"
IssuesReviewApply == applyCalls' \ applyCalls # {}
IssuesApply == IssuesAutoApply \/ IssuesReviewApply

\* The invocation carries the result the mounted ReviewModal shows and ids
\* the user left checked in it.
ApprovedReviewApply ==
    \A call \in applyCalls' \ applyCalls :
        /\ ReviewMounted
        /\ call.playlist_id = activeReview.playlist_id
        /\ call.changes = activeReview.changes
        /\ call.approvedIds \subseteq ChangeIds(activeReview.changes)

C5_RejectedNotReproposed ==
    [][Len(reviewQueue') > Len(reviewQueue) =>
          \A i \in DOMAIN reviewQueue'[Len(reviewQueue')].changes :
              IgnoreEntryOf(reviewQueue'[Len(reviewQueue')].changes[i])
                  \notin rejectedLive]_vars

\* A later run queued a result for a playlist whose Replace was rejected and
\* whose track is still there: the result proposes the duplicate removal
\* (its own ignore entry was removed) and not the Replace.
C5_Witness ==
    \E p \in PlaylistIds :
        /\ IgnoreEntryOf(ReplaceChange(p)) \in rejectedLive
        /\ IsApplicable(ReplaceChange(p), remote[p])
        /\ runCount = 2
        /\ Len(reviewQueue) > 0
        /\ reviewQueue[Len(reviewQueue)].playlist_id = p
        /\ reviewQueue[Len(reviewQueue)].changes = <<DuplicateChange(p)>>

\* C6: with the cancel flag set no scan_playlist is started, and neither
\* the cancel request nor the loop's exit writes or restores a playlist.
ScanStarts == loopPc # "scanning" /\ loopPc' = "scanning"

C6_CooperativeCancel ==
    /\ [][shouldCancel => ~ScanStarts]_vars
    /\ [][ScanStarts => (loopPc = "check" /\ ~shouldCancel)]_vars
    /\ [][(handleCancelProcess \/ (shouldCancel /\ LoopIteration)) =>
             UNCHANGED <<remote, snapshots, ignored>>]_vars

\* A cancelled run ended before its second playlist was scanned, and the
\* first playlist keeps what was applied to it.
C6_Witness ==
    /\ shouldCancel
    /\ loopPc = "idle"
    /\ Len(loopIds) = 2
    /\ scanLog = <<loopIds[1]>>
    /\ remote[loopIds[1]] # InitialTracks(loopIds[1])

\* C7: a loop that was not cancelled ends only after scan_playlist was
\* invoked for every selected playlist, a failing scan or apply leaves the
\* loop running, and the error names the failing playlist only.
LoopEnds == isProcessing /\ ~isProcessing'

AwaitingCount ==
    Len(reviewQueue) + (IF activeReview = NoReview THEN 0 ELSE 1)

ReviewDecision ==
    \/ handleCancelReview
    \/ \E call \in applyCalls : ApplyReviewReturns(call)
    \/ \E call \in applyCalls : ApplyReviewFails(call)

C10_ReviewBlocksNothing ==
    /\ [](loopPc = "check" => ENABLED LoopIteration)
    /\ [](loopPc = "scanning" /\ scan_playlist(CurrentPlaylist) # <<>>
             => ENABLED ScanFindsChanges)
    /\ [][AwaitingCount' < AwaitingCount => ReviewDecision]_vars

\* A review is open, another result waits in the queue and the loop is
\* scanning a further playlist.
C10_Witness ==
    /\ ReviewMounted
    /\ Len(reviewQueue) > 0
    /\ loopPc = "scanning"

\* C13 as stated: when the pause after a rate-limited scan or apply is
\* over, the loop takes up the same playlist again; it does not move on to
\* the next one.
C13_RateLimitedScanRetried ==
    [][(loopPc = "sleeping" /\ loopPc' # "sleeping") =>
          currentIndex' = currentIndex]_vars

\* The scan of the last selected playlist was answered with a 429 and the
\* loop is in its five-second pause.
C13_Witness ==
    /\ loopPc = "sleeping"
    /\ Len(loopIds) = 2
    /\ currentIndex + 1 = Len(loopIds)
    /\ scanLog = loopIds

\* =============================================== properties of SpecReview
\* The call's two lists split its changes by the approved ids.
IsPartition(call) ==
    /\ Len(call.approvedChanges) + Len(call.rejectedChanges) = Len(call.changes)
    /\ \A i \in DOMAIN call.changes :
          LET c == call.changes[i]
          IN IF c.id \in call.approvedIds
             THEN c \in Range(call.approvedChanges) /\ c \notin Range(call.rejectedChanges)
             ELSE c \in Range(call.rejectedChanges) /\ c \notin Range(call.approvedChanges)

\* What a change does to a playlist that holds its track, and what leaving
\* it out means.
HasEffect(c, before, after) ==
    /\ c.track_uri \notin Range(after)
    /\ c.type = "replace" => c.new_uri \in Range(after)

HasNoEffect(c, before, after) ==
    /\ c.track_uri \in Range(after)
    /\ (c.type = "replace" /\ c.new_uri \notin Range(before))
          => c.new_uri \notin Range(after)

\* C3: apply_changes is invoked with the ids checked in the dialog; every
\* change of the reviewed result is passed as approved or as rejected, never
\* both, never neither; the written playlist shows the approved changes and
\* none of the rejected ones, and the rejected ones become ignore entries.
C3_PartitionByApprovedIds ==
    /\ [](\A call \in applyCalls : IsPartition(call))
    /\ [][\A call \in applyCalls' \ applyCalls :
             /\ call.approvedIds = checkedIds
             /\ call.changes = activeReview.changes]_vars
    /\ [][\A call \in applyCalls :
             ApplyReviewReturns(call) =>
                 LET p == call.playlist_id
                 IN /\ \A i \in DOMAIN call.changes :
                          LET c == call.changes[i]
                          IN c.track_uri \in Range(remote[p]) =>
                                IF c.id \in call.approvedIds
                                THEN HasEffect(c, remote[p], remote'[p])
                                ELSE HasNoEffect(c, remote[p], remote'[p])
                    /\ UserRejected(call) \subseteq ignored']_vars

\* An apply is in flight that the user narrowed with the search box: one
\* change approved, one rejected.
C3_Witness ==
    \E call \in applyCalls :
        /\ call.approvedChanges # <<>>
        /\ call.rejectedChanges # <<>>
        /\ searchQuery # <<>>

\* C4: every apply leaves a snapshot of the sequence it started from, and
\* restoring the snapshot of a playlist's last apply, nothing else having
\* written the playlist since, gives the playlist that sequence again.
C4_SnapshotRoundTrip ==
    /\ [][\A call \in applyCalls :
             ApplyReviewReturns(call) =>
                 /\ Snapshot(call.playlist_id, remote[call.playlist_id]) \in snapshots'
                 /\ preApply'[call.playlist_id] = remote[call.playlist_id]]_vars
    /\ [][\A call \in restoreCalls :
             LET p == call.item.playlistName
             IN (/\ RestoreReturns(call)
                 /\ preApply[p] # NoApply
                 /\ call.item.id = Snapshot(p, preApply[p]).id)
                   => remote'[p] = preApply[p]]_vars

\* The restore of the last apply's snapshot is in flight for a playlist the
\* apply has changed and nothing else has written since.
C4_Witness ==
    \E call \in restoreCalls :
        LET p == call.item.playlistName
        IN /\ preApply[p] # NoApply
           /\ call.item.id = Snapshot(p, preApply[p]).id
           /\ remote[p] # preApply[p]

\* ================================================== properties of SpecRun
RunningCount(c) ==
    Cardinality({i \in DOMAIN runHistory :
                    runHistory[i].config_id = c /\ runHistory[i].status = "running"})

\* The server's engine handles a trigger for c / the dashboard turns a
\* click for c away.
ServerTrigger(c) ==
    /\ Len(runHistory') = Len(runHistory) + 1
    /\ runHistory'[Len(runHistory')].config_id = c

ClickTurnedAway(c) == dropped' = Append(dropped, c)

RecordedAsSkipped(c) ==
    /\ Len(runHistory') = Len(runHistory) + 1
    /\ runHistory'[Len(runHistory')].config_id = c
    /\ runHistory'[Len(runHistory')].status = "failed"
    /\ runHistory'[Len(runHistory')].error_message = "skipped"

C9_ScheduledRunsUnattended ==
    \A i \in DOMAIN runHistory :
        runHistory[i].triggered_by = "schedule" =>
            /\ runHistory[i].status \in {"running", "success", "failed"}
            /\ runHistory[i].status = "success" => runHistory[i].applied
            /\ runHistory[i].status = "failed" =>
                  runHistory[i].error_message # "none"
            /\ runHistory[i].status = "running" =>
                  ENABLED ServerRunEnds(i, TRUE) /\ ENABLED ServerRunEnds(i, FALSE)
            /\ i \notin alerted

\* A scheduled run has failed while the dashboard polls a run of its own.
C9_Witness ==
    /\ runningId # 0
    /\ \E h \in DOMAIN runs : runs[h].pc = "polling" /\ runs[h].pending > 0
    /\ \E i \in DOMAIN runHistory :
          /\ runHistory[i].triggered_by = "schedule"
          /\ runHistory[i].status = "failed"
          /\ runHistory[i].error_message = "error"
          /\ i \notin alerted

\* ============================================== properties of SpecEngine
SongCount(list, t) == Cardinality({i \in DOMAIN list : SameSong(list[i], t)})

IsSubsequence(sub, list) ==
    \E keep \in SUBSET DOMAIN list : sub = PickFrom(list, keep, 1)

ReconcileStep == enginePc = "reconcile" /\ enginePc' = "done"

\* C14: under update_mode merge the final list starts with the target's
\* tracks, all of them, in their order; what follows are pipeline tracks, in
\* pipeline order, each of a song that is not in the list before it; and
\* every song of the pipeline output is in the final list.
C14_MergeKeepsTarget ==
    [][(ReconcileStep /\ config.update_mode = "merge") =>
          LET n == Len(targetList')
              added == SubSeq(finalList', n + 1, Len(finalList'))
          IN /\ Len(finalList') >= n
             /\ SubSeq(finalList', 1, n) = targetList'
             /\ IsSubsequence(added, workList)
             /\ \A i \in (n + 1)..Len(finalList') :
                   \A j \in 1..(i - 1) : ~SameSong(finalList'[j], finalList'[i])
             /\ \A i \in DOMAIN workList : SongCount(finalList', workList[i]) > 0]_vars

\* A merge into a target that holds tracks: some pipeline tracks were
\* appended and some were left out because their song was already there.
C14_Witness ==
    /\ enginePc = "done"
    /\ config.update_mode = "merge"
    /\ targetList # <<>>
    /\ Len(finalList) > Len(targetList)
    /\ Len(finalList) < Len(targetList) + Len(workList)

\* C15: for every preference, dedupe of the list that reaches the Dedup stage
\* leaves one track of every song, the survivors in their input order, and
\* dedupe of its own output changes nothing; so does the stage itself.
C15_DedupIdempotent ==
    /\ [](enginePc = "dedup" => \A pref \in DUPE_OPTIONS :
             LET d == dedupe(workList, pref)
             IN /\ dedupe(d, pref) = d
                /\ IsSubsequence(d, workList)
                /\ \A i \in DOMAIN workList : SongCount(d, workList[i]) = 1)
    /\ [][(enginePc = "dedup" /\ enginePc' = "reconcile" /\ config.apply_dupes) =>
             /\ workList' = dedupe(workList, config.dupe_preference)
             /\ dedupe(workList', config.dupe_preference) = workList']_vars

\* The Dedup stage has collapsed three tracks of one song into one.
C15_Witness ==
    /\ enginePc = "reconcile"
    /\ config.apply_dupes
    /\ duplicatesRemoved = 2
    /\ Len(workList) = 1

TiesOf(list, t, rules) ==
    SelectSeq(list, LAMBDA u : compareAll(u, t, rules) = 0)

\* C16: for every rule set, sort of the list that reaches the Sort stage is
\* ordered by the rules, holds the input's tracks, keeps the tracks no rule
\* distinguishes in their input order, and is left as it is by sorting it
\* again; so does the stage itself.
C16_SortStableIdempotent ==
    /\ [](enginePc = "sort" => \A rules \in RuleSets :
             LET o == sort(workList, rules)
             IN /\ sort(o, rules) = o
                /\ Len(o) = Len(workList)
                /\ \A i \in DOMAIN workList :
                      TiesOf(o, workList[i], rules) = TiesOf(workList, workList[i], rules)
                /\ \A i, j \in DOMAIN o :
                      i < j => compareAll(o[i], o[j], rules) <= 0)
    /\ [][(enginePc = "sort" /\ enginePc' = "dedup" /\ config.apply_sort) =>
             /\ workList' = sort(workList, config.sort_rules)
             /\ sort(workList', config.sort_rules) = workList']_vars

\* The Sort stage has moved tracks, and two different tracks that its rules
\* do not distinguish are in the list.
C16_Witness ==
    /\ enginePc = "dedup"
    /\ config.sort_rules # <<>>
    /\ workList # Concatenate(sourceLists, config.sample_per_source)
    /\ \E i, j \in DOMAIN workList :
          /\ i < j
          /\ workList[i] # workList[j]
          /\ compareAll(workList[i], workList[j], config.sort_rules) = 0

\* The scenario's config, and its sources for tracks t1 (2020), t2 (2021).
ScenarioConfig ==
    [update_mode |-> "replace", sample_per_source |-> 2, apply_sort |-> TRUE,
     sort_rules |-> <<[criteria |-> "Release Date", descending |-> TRUE]>>,
     apply_dupes |-> TRUE, dupe_preference |-> "Keep Newest (Release Date)"]

Scenario(t1, t2) ==
    /\ enginePc = "done"
    /\ config = ScenarioConfig
    /\ sourceLists = <<<<t1, t2>>, <<t2>>>>

SixHourly == Template(<<<<"0">>, <<"*", "/", "6">>, Star, Star, Star>>)

\* The editor shows a stored schedule and no frequency control was changed
\* since it opened.
OpenedUntouched == showEditModal /\ editingId # 0 /\ untouched

\* C18: "0 */6 * * *" parses to the simple form interval with interval 6, and
\* for every stored expression that parseCronToSimple takes for hourly,
\* interval, daily, weekly or monthly, the expression composed from the
\* parsed simple form is the stored expression.
C18_CronRoundTrip ==
    \A s \in DOMAIN schedules :
        LET simple == parseCronToSimple(schedules[s], SimpleState)
        IN /\ schedules[s] = SixHourly =>
                 (simple.freq = "interval" /\ simple.interval = 6)
           /\ PatternOf(schedules[s]) \in FreqOptions =>
                 CronOfSimple(simple) = schedules[s]

\* The editor was opened on a stored expression the parser takes for daily,
\* and the form holds another expression than the stored one.
C18_Witness ==
    /\ OpenedUntouched
    /\ saving = NoSave
    /\ PatternOf(schedules[editingId]) = "daily"
    /\ simpleFreq = "daily"
    /\ formData.cron_expression = CronOfSimple(SimpleState)
    /\ formData.cron_expression # schedules[editingId]

\* C19: a save of an existing schedule, made while no frequency control was
\* changed since the editor opened, sends the stored expression.
C19_SaveKeepsStoredCron ==
    [][(saving = NoSave /\ saving' # NoSave /\ OpenedUntouched) =>
          saving'.cron_expression = schedules[editingId]]_vars

\* A save is in flight that was made without a change of any control, for a
\* stored expression of none of the five patterns, and it carries another
\* expression than the stored one.
C19_Witness ==
    /\ saving # NoSave
    /\ saving.id # 0
    /\ saving.untouched
    /\ PatternOf(schedules[saving.id]) = "complex"
    /\ saving.cron_expression # schedules[saving.id]

C11_ClassifiedByDuration ==
    rateLimited => (isSpotifyBan <=> cooldown > 120)

\* A lock of 90000 s that is shown as a local cooldown.
C11_Witness ==
    /\ rateLimited
    /\ cooldown = 90000
    /\ ~isSpotifyBan

\* C12 as stated: a selector that was blocked by a rate limit resumes once
\* the countdown has reached zero.
C12_ResumesAfterCooldown ==
    (SelectorBlocked /\ remaining = 0) ~> ~SelectorBlocked

\* The countdown of a 60 s cooldown has run out and the selector is still
\* blocked, with no step left but the user's reload.
C12_Witness ==
    /\ SelectorBlocked
    /\ cooldown = 60
    /\ remaining = 0
    /\ ~ENABLED CountdownTick
    /\ ~ENABLED FetchSettles

\* C28 as stated: while one rate-limit episode lasts (the selector stays
\* blocked and the page was not reloaded), the classification shown, lock or
\* local cooldown, is the one of the retry-after value received and does not
\* change from one step of the countdown to the next.
C28_ClassificationFixed ==
    [][(rateLimited /\ rateLimited' /\ reloads' = reloads)
          => /\ isSpotifyBan' = isSpotifyBan
             /\ isSpotifyBan = (cooldown > 120)]_vars

\* The countdown of a 121 s episode has just passed 120 s: the panel that
\* showed a lock now shows a local cooldown.
C28_Witness ==
    /\ rateLimited
    /\ cooldown = 121
    /\ waitTime = 120
    /\ ~isSpotifyBan

\* ======================================= properties of SpecScan (runs)
RunStarts == ~isProcessing /\ isProcessing'

\* C26: isProcessing is true exactly while a scan loop is running; a loop
\* starts only when none is running, and the loop's end (list exhausted,
\* also after failed playlists, or cancel flag seen) resets isProcessing.
C26_OneLoopWhileProcessing ==
    /\ [](isProcessing <=> loopPc # "idle")
    /\ [][(runCount' # runCount /\ isProcessing') =>
             (RunStarts /\ loopPc = "idle" /\ loopPc' = "check")]_vars
    /\ [][LoopEnds =>
             /\ loopPc = "check"
             /\ loopPc' = "idle"
             /\ (currentIndex >= Len(loopIds) \/ shouldCancel)]_vars

\* The second run has ended by cancellation after one of its playlists
\* failed, and isProcessing is reset.
C26_Witness ==
    /\ runCount = 2
    /\ loopPc = "idle"
    /\ ~isProcessing
    /\ shouldCancel
    /\ errorLog # {}
    /\ Len(scanLog) < Len(loopIds)

\* C27: every run begins with the cancel flag cleared, with an empty scan
\* log and the playlists selected at that moment; the flag is set only
\* while a run is in progress, so a run that ends with a playlist left
\* unscanned is one in which cancel was requested.
C27_CancelDoesNotCarryOver ==
    /\ [][RunStarts =>
             /\ ~shouldCancel'
             /\ scanLog' = <<>>
             /\ loopIds' = selectedPlaylistIds]_vars
    /\ [][(shouldCancel' /\ ~shouldCancel) => (isProcessing /\ isProcessing')]_vars
    /\ [][(LoopEnds /\ scanLog # loopIds) => shouldCancel]_vars
    /\ [][(isProcessing /\ loopPc = "check" /\ ~shouldCancel
              /\ currentIndex < Len(loopIds)) => ~LoopEnds]_vars

\* A cancelled run has ended with a playlist left unscanned and the flag
\* still set, and the next run, started from here, begins with the flag
\* cleared.
C27_Witness ==
    /\ runCount = 1
    /\ ~isProcessing
    /\ shouldCancel
    /\ Len(scanLog) < Len(loopIds)
    /\ ENABLED (handleRunProcess /\ isProcessing' /\ ~shouldCancel')

\* ============================================ properties of SpecSettings
RunRequested == runCount' # runCount

\* C21: a run requested while sorting is enabled and the rule list is empty
\* is turned down on the spot: isProcessing stays false, no loop starts, no
\* scan_playlist or apply_changes is invoked and nothing is written.
C21_EmptyRulesRejected ==
    [][(RunRequested /\ sortEnabled /\ Len(sortRules) = 0) =>
          /\ ~isProcessing'
          /\ loopPc' = "idle"
          /\ ~ScanStarts
          /\ ~IssuesApply
          /\ UNCHANGED <<loopIds, currentIndex, scanLog, applyCalls, remote,
                         snapshots, ignored, reviewQueue>>]_vars

\* The one run requested so far was turned down: sorting is enabled, the
\* rehydrated rule list is empty, and no loop has ever started.
C21_Witness ==
    /\ runCount = 1
    /\ sortEnabled
    /\ sortRules = <<>>
    /\ selectedPlaylistIds # <<>>
    /\ ~isProcessing
    /\ loopIds = <<>>

\* C29 as stated: the sort rules and the sort-enabled flag that
\* handleApplyReview sends for the reviewed playlist are the ones that were
\* passed to the scan_playlist call that produced the reviewed result.
C29_ApplyUsesScanSettings ==
    [][\A call \in applyCalls' \ applyCalls :
          /\ call.sortEnabled = activeReview.scannedWith.sortEnabled
          /\ call.sortRules = activeReview.scannedWith.sortRules]_vars

\* A playlist scanned with sorting enabled and the default rules is being
\* applied with sorting disabled and an edited first rule.
C29_Witness ==
    /\ ReviewMounted
    /\ activeReview.scannedWith = [sortEnabled |-> TRUE, sortRules |-> DefaultSortRules]
    /\ \E call \in applyCalls :
          /\ call.playlist_id = activeReview.playlist_id
          /\ ~call.sortEnabled
          /\ call.sortRules # DefaultSortRules

\* =============================================== properties of SpecForms
\* C22 as stated: no config without a source playlist and without the
\* liked songs is handed to save_dynamic_config or sent to /api/configs.
C22_NoSourcelessConfigSent ==
    request # NoRequest =>
        (Len(request.sources) > 0 \/ request.include_liked_songs)

\* ConfigEditor's request carries a named config that has no source
\* playlist and does not include the liked songs.
C22_Witness ==
    /\ request # NoRequest
    /\ request.via = "POST /api/configs"
    /\ request.sources = <<>>
    /\ ~request.include_liked_songs

\* C24 as stated: the sample per source of a config that is saved is null
\* or an integer above zero.
C24_SamplePositiveOrNull ==
    request # NoRequest =>
        (request.sample_per_source = Null \/ request.sample_per_source[1] > 0)

\* DynamicPlaylistModal hands over a config, valid otherwise, whose sample
\* per source is 0.
C24_Witness ==
    /\ request # NoRequest
    /\ request.via = "save_dynamic_config"
    /\ Len(request.sources) > 0
    /\ request.sample_per_source = Some(0)

\* =============================================== properties of SpecRules
\* C23 as stated: while sorting is enabled the rule list is not empty, in
\* the settings section of the desktop application and in the Sort
\* Configuration panel of ConfigEditor alike.
C23_RulesNeverEmpty ==
    /\ (app = "desktop" /\ sortEnabled) => Len(sortRules) > 0
    /\ PanelShown => Len(editorConfig.processing.sort_rules) > 0

\* ConfigEditor shows the Sort Configuration panel with no rule left.
C23_Witness ==
    /\ PanelShown
    /\ editorConfig.processing.sort_rules = <<>>

\* ============================================ properties of FairSpecTray
Queued(p) == \E i \in DOMAIN reviewQueue : reviewQueue[i].playlist_id = p

Presented(p) == ReviewMounted /\ activeReview.playlist_id = p

\* C25 as stated: every result on the review queue is eventually shown in
\* the review dialog, whatever other dialog is opened or closed in between;
\* a result becomes the active review only when none is active, and it is
\* the head of the queue.
C25_QueuedEventuallyReviewed ==
    /\ \A p \in PlaylistIds : Queued(p) ~> Presented(p)
    /\ [][(activeReview' # activeReview /\ activeReview' # NoReview) =>
             /\ activeReview = NoReview
             /\ reviewQueue # <<>>
             /\ activeReview' = Head(reviewQueue)
             /\ reviewQueue' = Tail(reviewQueue)]_vars

\* A tray dialog was opened over a review and closed again: the review is
\* still the active one, no dialog shows it, and the next result waits in
\* the queue with the consumer disabled.
C25_Witness ==
    /\ activeModal = "none"
    /\ activeReview # NoReview
    /\ reviewQueue # <<>>
    /\ ~ENABLED ReviewConsumer
    /\ ~ENABLED handleCancelReview

\* ============================================= properties of SpecCompare
\* C30 as stated: once no removal is pending, no track of the displayed
\* result lists a playlist it was removed from, and every track listed has
\* at least two playlists.
C30_RemovalsReflected ==
    (result # NoResult /\ removeCalls = {}) =>
        \A i \in DOMAIN result.duplicates :
            /\ \A j \in DOMAIN result.duplicates[i].found_in_playlists :
                  StatusOf(result.duplicates[i].track_id,
                           result.duplicates[i].found_in_playlists[j]) # "Removed"
            /\ Len(result.duplicates[i].found_in_playlists) >= 2

\* Track 1 was removed from "A" and from "B" by two calls that overlapped;
\* both succeeded, and the result lists the track with "A" and "C".
C30_Witness ==
    /\ removeCalls = {}
    /\ StatusOf(1, "A") = "Removed"
    /\ StatusOf(1, "B") = "Removed"
    /\ result # NoResult
    /\ \E i \in DOMAIN result.duplicates :
          /\ result.duplicates[i].track_id = 1
          /\ result.duplicates[i].found_in_playlists = <<"A", "C">>

====
